---- MODULE Spec2Model ----
(***************************************************************************)
(* The Dongometer server (src/simple_app.py): the chaos-score engine, the  *)
(* Fenthouse override lock, the MongoDB-backed metric caches, the rolling  *)
(* windows and the two JSON endpoints, as a state machine; and, from the   *)
(* Flask variant of the server (src/app.py), the background aggregator and *)
(* the event handler run by concurrent threads.  Also the indexer's count  *)
(* cache, the Fenthouse poster thread, and the events the four chat        *)
(* bridges send for a message.                                             *)
(*                                                                         *)
(* Time is the wall clock in whole seconds (time.time() and datetime.now() *)
(* read the same clock; the local time zone is taken to be UTC).  Scores   *)
(* are in whole chaos points: the only non-integer term of the score,      *)
(* math.log10(pizza_count) * 50, is truncated to its integer part.         *)
(***************************************************************************)
EXTENDS Integers, Sequences, FiniteSets, TLC

VARIABLES
    now,            \* wall clock, seconds
    ticks,          \* number of clock advances so far (bounds the run)
    posts,          \* number of POST /api/event requests handled so far
    chat_velocity,  \* metrics['chat_velocity'], deque(maxlen=100) of timestamps
    door_events,    \* metrics['door_events'], deque(maxlen=50) of timestamps
    pizza_count,    \* metrics['pizza_count']
    events,         \* rows of the sqlite table events
    metrics_cache,  \* _metrics_cache
    pizza_cache,    \* _pizza_cache
    lockFile,       \* /tmp/dongometer_lock
    mongo,          \* what the MongoDB indexer would answer if queried now
    pc,             \* position of the request being served
    req,            \* locals of the request being served
    resp,           \* the last response sent
    hourly_stats,   \* rows of the sqlite table hourly_stats (src/app.py)
    aggregator_thread,  \* the background aggregator thread (src/app.py)
    handlers,       \* request handler threads part-way through an event
    indexer,        \* what the indexer's count and room queries would answer
    indexer_cache,  \* _indexer_cache
    indexer_fetched,    \* history: when each cached indexer value was fetched
    MATRIX_ACCESS_TOKEN,    \* the environment variable read at import
    poster_thread,  \* the Fenthouse poster thread
    room,           \* times of the messages posted to the Fenthouse room
    outbox          \* the events a bridge sent for the message it last processed

vars == <<now, ticks, posts, chat_velocity, door_events, pizza_count, events,
          metrics_cache, pizza_cache, lockFile, mongo, pc, req, resp,
          hourly_stats, aggregator_thread, handlers, indexer, indexer_cache,
          indexer_fetched, MATRIX_ACCESS_TOKEN, poster_thread, room, outbox>>

----------------------------------------------------------------------------
(* Python values *)

None == << >>
Some(x) == <<x>>
Val(o) == o[1]

Min(a, b) == IF a <= b THEN a ELSE b

\* dict.get(key, default) on a JSON object modelled as a function on its keys
Get(d, key, default) == IF key \in DOMAIN d THEN d[key] ELSE default

\* truth value of a dict: empty is falsy
Truthy(d) == DOMAIN d # {}

----------------------------------------------------------------------------
(* Program constants *)

SENTINEL == 42069
ChatMaxLen == 100
DoorMaxLen == 50
MetricsTTL == 5
IndexerTTL == 60
PosterInterval == 300
PosterStartDelay == 5
PizzaTTL == 30
ChatHorizon == 300
DoorHorizon == 600
PizzapocalypseAt == 10000
DoorValueCap == 100000

DefaultLockMsg == "FENTHOUSE ACTIVE"

----------------------------------------------------------------------------
(* The override lock: /tmp/dongometer_lock holds "lock_time,duration[,msg]" *)

\* one comma-separated field of the file: its text, and its value when the
\* text is an integer literal (int() raises ValueError otherwise)
IntPart(n) == [int |-> TRUE, n |-> n, text |-> "<int>"]
TextPart(t) == [int |-> FALSE, n |-> 0, text |-> t]

NoLockFile == [exists |-> FALSE, readable |-> FALSE, parts |-> << >>]
LockContent(parts) == [exists |-> TRUE, readable |-> TRUE, parts |-> parts]
UnreadableLock == [exists |-> TRUE, readable |-> FALSE, parts |-> << >>]

InactiveStatus ==
    [active |-> FALSE, status_message |-> None, countdown |-> None,
     expires_at |-> None]

\* variant: the minutes are those of the whole remaining time
Countdown_minutes_of_total(remaining) ==
    [hours |-> remaining \div 3600,
     minutes |-> remaining \div 60,
     seconds |-> remaining % 60,
     total_seconds |-> remaining]

Countdown(remaining) ==
    [hours |-> remaining \div 3600,
     minutes |-> (remaining % 3600) \div 60,
     seconds |-> remaining % 60,
     total_seconds |-> remaining]

\* variants of get_fenthouse_status used to test the lock claims
\* the message field is required (as simple_app_fixed.py's serve_metrics does)
get_fenthouse_status_three_fields(f, t) ==
    IF f.exists /\ f.readable /\ Len(f.parts) >= 3
       /\ f.parts[1].int /\ f.parts[2].int
       /\ (f.parts[1].n + f.parts[2].n) - t > 0
    THEN [active |-> TRUE,
          status_message |-> Some(f.parts[3].text),
          countdown |-> Some(Countdown((f.parts[1].n + f.parts[2].n) - t)),
          expires_at |-> Some(f.parts[1].n + f.parts[2].n)]
    ELSE InactiveStatus

\* the lock is still active at the instant it expires
get_fenthouse_status_inclusive(f, t) ==
    IF f.exists /\ f.readable /\ Len(f.parts) >= 2
       /\ f.parts[1].int /\ f.parts[2].int
       /\ (f.parts[1].n + f.parts[2].n) - t >= 0
    THEN [active |-> TRUE,
          status_message |-> Some(IF Len(f.parts) >= 3 THEN f.parts[3].text
                                  ELSE DefaultLockMsg),
          countdown |-> Some(Countdown((f.parts[1].n + f.parts[2].n) - t)),
          expires_at |-> Some(f.parts[1].n + f.parts[2].n)]
    ELSE InactiveStatus

\* an unparsable duration falls back to one hour
get_fenthouse_status_default_duration(f, t) ==
    IF f.exists /\ f.readable /\ Len(f.parts) >= 2 /\ f.parts[1].int
       /\ (f.parts[1].n
           + (IF f.parts[2].int THEN f.parts[2].n ELSE 3600)) - t > 0
    THEN LET expiry == f.parts[1].n
                       + (IF f.parts[2].int THEN f.parts[2].n ELSE 3600)
         IN  [active |-> TRUE,
              status_message |-> Some(IF Len(f.parts) >= 3
                                      THEN f.parts[3].text
                                      ELSE DefaultLockMsg),
              countdown |-> Some(Countdown(expiry - t)),
              expires_at |-> Some(expiry)]
    ELSE InactiveStatus

get_fenthouse_status(f, t) ==
    IF ~f.exists THEN InactiveStatus
    ELSE IF ~f.readable THEN InactiveStatus          \* open() raises: caught
    ELSE IF Len(f.parts) >= 2
    THEN IF ~f.parts[1].int \/ ~f.parts[2].int
         THEN InactiveStatus                         \* int() raises: caught
         ELSE LET lock_time == f.parts[1].n
                  duration == f.parts[2].n
                  status_msg == IF Len(f.parts) >= 3 THEN f.parts[3].text
                                ELSE DefaultLockMsg
                  remaining == (lock_time + duration) - t
              IN  IF remaining > 0
                  THEN [active |-> TRUE,
                        status_message |-> Some(status_msg),
                        countdown |-> Some(Countdown(remaining)),
                        expires_at |-> Some(lock_time + duration)]
                  ELSE InactiveStatus
    ELSE InactiveStatus

----------------------------------------------------------------------------
(* The external metrics source and its caches.  mongo.metrics is the        *)
(* outcome a mongosh count query would have now: None for a failure         *)
(* (timeout, non-zero exit, no JSON line, unparseable line), Some(d) for a  *)
(* parsed JSON object d.  mongo.pizza likewise: None, or Some(count).       *)

EmptyCache == [data |-> None, timestamp |-> 0]
EmptyPizzaCache == [count |-> None, timestamp |-> 0]

\* variant: a failed query falls back to the stale cache entry
get_indexer_metrics_stale(cache, m, t) ==
    IF cache.data # None /\ t - cache.timestamp < MetricsTTL
    THEN [ret |-> cache.data, cache |-> cache]
    ELSE IF m.metrics # None
         THEN [ret |-> m.metrics,
               cache |-> [data |-> m.metrics, timestamp |-> t]]
         ELSE [ret |-> cache.data, cache |-> cache]

\* variant: a query that succeeds fills the cache but the call that issued
\* it still reports a miss
get_indexer_metrics_fill_only(cache, m, t) ==
    IF cache.data # None /\ t - cache.timestamp < MetricsTTL
    THEN [ret |-> cache.data, cache |-> cache]
    ELSE IF m.metrics # None
         THEN [ret |-> None,
               cache |-> [data |-> m.metrics, timestamp |-> t]]
         ELSE [ret |-> None, cache |-> cache]

\* returns [ret, cache]: the value returned and _metrics_cache afterwards
get_indexer_metrics(cache, m, t) ==
    IF cache.data # None /\ t - cache.timestamp < MetricsTTL
    THEN [ret |-> cache.data, cache |-> cache]
    ELSE IF m.metrics # None
         THEN [ret |-> m.metrics,
               cache |-> [data |-> m.metrics, timestamp |-> t]]
         ELSE [ret |-> None, cache |-> cache]

\* get_pizza_metrics: None on failure, else the count
get_pizza_metrics(m) == m.pizza

\* variant: a failed pizza query answers 0 even when an older count is
\* cached
get_cached_pizza_count_zero_on_failure(cache, m, t) ==
    IF cache.count # None /\ t - cache.timestamp < PizzaTTL
    THEN [ret |-> Val(cache.count), cache |-> cache]
    ELSE LET count == get_pizza_metrics(m)
         IN  IF count # None
             THEN [ret |-> Val(count),
                   cache |-> [count |-> count, timestamp |-> t]]
             ELSE [ret |-> 0, cache |-> cache]

\* variant: no caching, every call queries the pizza source
get_cached_pizza_count_uncached(cache, m, t) ==
    LET count == get_pizza_metrics(m)
    IN  IF count # None
        THEN [ret |-> Val(count),
              cache |-> [count |-> count, timestamp |-> t]]
        ELSE [ret |-> IF cache.count # None /\ Val(cache.count) # 0
                      THEN Val(cache.count) ELSE 0,
              cache |-> cache]

\* returns [ret, cache]: the count returned and _pizza_cache afterwards
\* a failed fetch restamps the cache entry
get_cached_pizza_count_stamps_failure(cache, m, t) ==
    IF cache.count # None /\ t - cache.timestamp < PizzaTTL
    THEN [ret |-> Val(cache.count), cache |-> cache]
    ELSE LET count == get_pizza_metrics(m)
         IN  IF count # None
             THEN [ret |-> Val(count),
                   cache |-> [count |-> count, timestamp |-> t]]
             ELSE [ret |-> IF cache.count # None /\ Val(cache.count) # 0
                           THEN Val(cache.count) ELSE 0,
                   cache |-> [count |-> cache.count, timestamp |-> t]]

get_cached_pizza_count(cache, m, t) ==
    IF cache.count # None /\ t - cache.timestamp < PizzaTTL
    THEN [ret |-> Val(cache.count), cache |-> cache]
    ELSE LET count == get_pizza_metrics(m)
         IN  IF count # None
             THEN [ret |-> Val(count),
                   cache |-> [count |-> count, timestamp |-> t]]
             ELSE [ret |-> IF cache.count # None /\ Val(cache.count) # 0
                           THEN Val(cache.count) ELSE 0,
                   cache |-> cache]

----------------------------------------------------------------------------
(* The chaos-score engine *)

\* variant: len(window), the horizon ignored
CountRecent_whole_window(window, t, horizon) == Len(window)

\* sum(1 for t in window if now - t < horizon)
CountRecent(window, t, horizon) ==
    Cardinality({i \in DOMAIN window : t - window[i] < horizon})

\* datetime.now().hour
HourOf(t) == (t \div 3600) % 24

\* variant: the night bucket includes hour 6
TimeOfDayBonus_late_night(hour) ==
    IF 0 <= hour /\ hour <= 6 THEN 20
    ELSE IF 18 <= hour /\ hour < 24 THEN 15
    ELSE IF 12 <= hour /\ hour < 18 THEN 10
    ELSE 5

TimeOfDayBonus(hour) ==
    IF 0 <= hour /\ hour < 6 THEN 20
    ELSE IF 18 <= hour /\ hour < 24 THEN 15
    ELSE IF 12 <= hour /\ hour < 18 THEN 10
    ELSE 5

\* ceil(10^(4 + k/50)) for k = 0..49: the integers at which
\* floor(50 * log10(m)) steps, for 10^4 <= m < 10^5
Log10Steps ==
    <<10000, 10472, 10965, 11482, 12023, 12590, 13183, 13804, 14455, 15136,
      15849, 16596, 17379, 18198, 19055, 19953, 20893, 21878, 22909, 23989,
      25119, 26303, 27543, 28841, 30200, 31623, 33114, 34674, 36308, 38019,
      39811, 41687, 43652, 45709, 47864, 50119, 52481, 54955, 57544, 60256,
      63096, 66070, 69184, 72444, 75858, 79433, 83177, 87097, 91202, 95500>>

RECURSIVE Digits(_)
Digits(p) == IF p < 10 THEN 1 ELSE 1 + Digits(p \div 10)

RECURSIVE Pow10(_)
Pow10(k) == IF k = 0 THEN 1 ELSE 10 * Pow10(k - 1)

\* floor(math.log10(p) * 50) for p >= 1 (exact for p <= 10^5)
Log10Times50(p) ==
    LET d == Digits(p) - 1
        m == IF d <= 4 THEN p * Pow10(4 - d) ELSE p \div Pow10(d - 4)
        k == CHOOSE i \in 1..50 :
                 /\ Log10Steps[i] <= m
                 /\ i < 50 => Log10Steps[i + 1] > m
    IN  50 * d + (k - 1)

\* variant: the scaling bonus starts at the threshold itself
PizzaBonus_at_threshold(count) ==
    IF count > 0
    THEN Min(count * 2, 10)
         + (IF count >= PizzapocalypseAt THEN Log10Times50(count) ELSE 0)
    ELSE 0

PizzaBonus(count) ==
    IF count > 0
    THEN Min(count * 2, 10)
         + (IF count > PizzapocalypseAt THEN Log10Times50(count) ELSE 0)
    ELSE 0

\* variant: the capped score of simple_app_fixed.py
calculate_chaos_score_capped(f, mcache, pcache, m, chat, door, t) ==
    IF get_fenthouse_status(f, t).active
    THEN [ret |-> SENTINEL, mcache |-> mcache, pcache |-> pcache]
    ELSE
    LET im == get_indexer_metrics(mcache, m, t)
        useIndexer == im.ret # None /\ Truthy(Val(im.ret))
        recent_msgs == IF useIndexer THEN Get(Val(im.ret), "fiveMin", 0)
                       ELSE CountRecent(chat, t, ChatHorizon)
        recent_doors == IF useIndexer
                        THEN Get(Val(im.ret), "tenMin", 0) \div 2
                        ELSE CountRecent(door, t, DoorHorizon)
        pz == get_cached_pizza_count(pcache, m, t)
    IN  [ret |-> Min(Min(recent_msgs * 2, 40) + Min(recent_doors * 5, 30)
                     + TimeOfDayBonus(HourOf(t)) + PizzaBonus(pz.ret), 100),
         mcache |-> im.cache, pcache |-> pz.cache]

\* returns [ret, mcache, pcache]: the score and the two caches afterwards
calculate_chaos_score(f, mcache, pcache, m, chat, door, t) ==
    IF get_fenthouse_status(f, t).active
    THEN [ret |-> SENTINEL, mcache |-> mcache, pcache |-> pcache]
    ELSE
    LET im == get_indexer_metrics(mcache, m, t)
        useIndexer == im.ret # None /\ Truthy(Val(im.ret))
        recent_msgs == IF useIndexer THEN Get(Val(im.ret), "fiveMin", 0)
                       ELSE CountRecent(chat, t, ChatHorizon)
        recent_doors == IF useIndexer
                        THEN Get(Val(im.ret), "tenMin", 0) \div 2
                        ELSE CountRecent(door, t, DoorHorizon)
        pz == get_cached_pizza_count(pcache, m, t)
    IN  [ret |-> recent_msgs * 2 + recent_doors * 5
                 + TimeOfDayBonus(HourOf(t)) + PizzaBonus(pz.ret),
         mcache |-> im.cache, pcache |-> pz.cache]

\* variant: the calm band ends below 20
StatusLabel_exclusive(score) ==
    IF score < 20 THEN "CALM"
    ELSE IF score <= 40 THEN "ACTIVE"
    ELSE IF score <= 60 THEN "CHAOTIC"
    ELSE IF score <= 80 THEN "DEMONIC"
    ELSE IF score <= 100 THEN "APOCALYPSE"
    ELSE IF score <= 200 THEN "TRUE APOCALYPSE"
    ELSE IF score <= 500 THEN "COSMIC HORROR"
    ELSE IF score <= 1000 THEN "MULTIVERSE COLLAPSE"
    ELSE IF score < 42069 THEN "HEAT DEATH OF UNIVERSE"
    ELSE "FENTHOUSE"

StatusLabel(score) ==
    IF score <= 20 THEN "CALM"
    ELSE IF score <= 40 THEN "ACTIVE"
    ELSE IF score <= 60 THEN "CHAOTIC"
    ELSE IF score <= 80 THEN "DEMONIC"
    ELSE IF score <= 100 THEN "APOCALYPSE"
    ELSE IF score <= 200 THEN "TRUE APOCALYPSE"
    ELSE IF score <= 500 THEN "COSMIC HORROR"
    ELSE IF score <= 1000 THEN "MULTIVERSE COLLAPSE"
    ELSE IF score < 42069 THEN "HEAT DEATH OF UNIVERSE"
    ELSE "FENTHOUSE"


----------------------------------------------------------------------------
(* Bounds and the inputs the environment draws from *)

MaxTicks == 2
MaxPosts == 1
\* chat messages posted in a row in the end-to-end scenario
MaxBurst == 5
\* iterations of the background aggregator's loop in a run
MaxRuns == 2

\* the run starts at 05:55:00, five minutes before the time-of-day bucket
\* changes
StartTime == 6 * 3600 - 300

LockMessages == {"FOLDING"}

\* well-formed contents of /tmp/dongometer_lock
ValidLocks ==
    {LockContent(<<IntPart(StartTime), IntPart(600)>>)}
    \cup {LockContent(<<IntPart(StartTime), IntPart(d), TextPart(msg)>>) :
              d \in {5, 60}, msg \in LockMessages}

\* contents the lock check must survive
BrokenLocks ==
    {UnreadableLock,
     LockContent(<<TextPart("")>>),
     LockContent(<<IntPart(StartTime)>>),
     LockContent(<<TextPart("soon"), IntPart(60)>>),
     LockContent(<<IntPart(StartTime), TextPart("1h")>>),
     LockContent(<<IntPart(StartTime), TextPart("1h"), TextPart("FOLDING")>>)}

Counts == [fiveMin |-> 3, tenMin |-> 5, hour |-> 9]
\* outcomes of the count query: a failure, the counts, a JSON line without
\* the count keys, an empty JSON object
MetricsAnswers == {None, Some(Counts), Some([warning |-> 1]), Some(<< >>)}
\* outcomes of the pizza query: a failure, or a count
PizzaAnswers == {None, Some(5), Some(15000)}

\* parsed JSON bodies of POST /api/event
Body(type, value) == [type |-> type, value |-> value]
BodyNoValue(type) == [type |-> type]
BodyNoType(value) == [value |-> value]

NoResp == [kind |-> "none"]
NoReq == [kind |-> "none"]
\* the aggregator thread as started by __main__, and no handler part-way
AggregatorStart == [alive |-> TRUE, runs |-> 0, failed |-> {}]
NoHandlers == << >>

----------------------------------------------------------------------------
(* The Fenthouse poster thread and the chat bridges: what Init needs *)

\* the truth value of os.environ.get('MATRIX_ACCESS_TOKEN'): unset and the
\* empty string are falsy
TokenSet(token) == token # None /\ Val(token) # ""

\* start_fenthouse_poster: the thread exists only if the token is set; its
\* first check comes after the start-up sleep
start_fenthouse_poster(token) ==
    [alive |-> TokenSet(token), wake |-> StartTime + PosterStartDelay,
     iterations |-> 0, last_error |-> None]

EmptyIndexerCache == [count |-> None, timestamp |-> 0, rooms |-> None]
IndexerDown == [count |-> None, rooms |-> None]
NeverFetched == [count |-> 0, rooms |-> 0]

NoOutbox == [bridge |-> "none", content |-> << >>, sent |-> << >>]

----------------------------------------------------------------------------
(* The state machine *)

Init ==
    /\ now = StartTime
    /\ ticks = 0
    /\ posts = 0
    /\ chat_velocity = << >>
    /\ door_events = << >>
    /\ pizza_count = 0
    /\ events = << >>
    /\ metrics_cache = EmptyCache
    /\ pizza_cache = EmptyPizzaCache
    /\ lockFile = NoLockFile
    /\ mongo = [metrics |-> None, pizza |-> None]
    /\ pc = "idle"
    /\ req = NoReq
    /\ resp = NoResp
    /\ hourly_stats = << >>
    /\ aggregator_thread = AggregatorStart
    /\ handlers = NoHandlers
    /\ indexer = IndexerDown
    /\ indexer_cache = EmptyIndexerCache
    /\ indexer_fetched = NeverFetched
    /\ MATRIX_ACCESS_TOKEN = None
    /\ poster_thread = start_fenthouse_poster(None)
    /\ room = << >>
    /\ outbox = NoOutbox

(* the environment *)

Tick(d) ==
    /\ ticks < MaxTicks
    /\ now' = now + d
    /\ ticks' = ticks + 1
    /\ resp' = NoResp
    /\ UNCHANGED <<posts, chat_velocity, door_events, pizza_count, events,
                   metrics_cache, pizza_cache, lockFile, mongo, pc, req>>
    /\ UNCHANGED <<hourly_stats, aggregator_thread, handlers>>
    /\ UNCHANGED <<indexer, indexer_cache, indexer_fetched,
                   MATRIX_ACCESS_TOKEN, poster_thread, room, outbox>>

WriteLock(f) ==
    /\ f # lockFile
    /\ lockFile' = f
    /\ resp' = NoResp
    /\ UNCHANGED <<now, ticks, posts, chat_velocity, door_events, pizza_count,
                   events, metrics_cache, pizza_cache, mongo, pc, req>>
    /\ UNCHANGED <<hourly_stats, aggregator_thread, handlers>>
    /\ UNCHANGED <<indexer, indexer_cache, indexer_fetched,
                   MATRIX_ACCESS_TOKEN, poster_thread, room, outbox>>

MongoChange(m) ==
    /\ m # mongo
    /\ mongo' = m
    /\ resp' = NoResp
    /\ UNCHANGED <<now, ticks, posts, chat_velocity, door_events, pizza_count,
                   events, metrics_cache, pizza_cache, lockFile, pc, req>>
    /\ UNCHANGED <<hourly_stats, aggregator_thread, handlers>>
    /\ UNCHANGED <<indexer, indexer_cache, indexer_fetched,
                   MATRIX_ACCESS_TOKEN, poster_thread, room, outbox>>

(* POST /api/event *)

\* variant: a full window refuses the append instead of evicting
AppendN_keeps_oldest(window, t, n, cap) ==
    LET all == window \o [i \in 1..Min(n, cap) |-> t]
    IN  SubSeq(all, 1, Min(Len(all), cap))

\* deque(maxlen=cap).append(t), n times
AppendN(window, t, n, cap) ==
    LET k == Min(n, cap)
        keep == Min(Len(window), cap - k)
    IN  SubSeq(window, Len(window) - keep + 1, Len(window))
        \o [i \in 1..k |-> t]

\* do_POST with a body json.loads rejects
PostMalformed ==
    /\ pc = "idle"
    /\ resp' = [kind |-> "error", code |-> 400]
    /\ UNCHANGED <<now, ticks, posts, chat_velocity, door_events, pizza_count,
                   events, metrics_cache, pizza_cache, lockFile, mongo, pc,
                   req>>
    /\ UNCHANGED <<hourly_stats, aggregator_thread, handlers>>
    /\ UNCHANGED <<indexer, indexer_cache, indexer_fetched,
                   MATRIX_ACCESS_TOKEN, poster_thread, room, outbox>>

\* variant: the chat_message branch is never taken
record_in_memory_chat_unrecognised(type, value, chat, door, pizza, t) ==
    [chat |-> chat,
     door |-> IF type \in {Some("door_open"), Some("door_close")}
              THEN AppendN(door, t,
                           IF Min(value, DoorValueCap) > 0
                           THEN Min(value, DoorValueCap) ELSE 0,
                           DoorMaxLen)
              ELSE door,
     pizza |-> IF type = Some("pizza") THEN pizza + value
               ELSE IF type = Some("reset_pizza") THEN 0
               ELSE pizza]

\* variant: chat messages honour the value like door events do
record_in_memory_chat_by_value(type, value, chat, door, pizza, t) ==
    [chat |-> IF type = Some("chat_message")
              THEN AppendN(chat, t, IF value > 0 THEN value ELSE 0, ChatMaxLen)
              ELSE chat,
     door |-> IF type \in {Some("door_open"), Some("door_close")}
              THEN AppendN(door, t,
                           IF Min(value, DoorValueCap) > 0
                           THEN Min(value, DoorValueCap) ELSE 0,
                           DoorMaxLen)
              ELSE door,
     pizza |-> IF type = Some("pizza") THEN pizza + value
               ELSE IF type = Some("reset_pizza") THEN 0
               ELSE pizza]

\* variant: the chain ends in an else branch that counts any other type as
\* a chat message
record_in_memory_else_chat(type, value, chat, door, pizza, t) ==
    [chat |-> IF type \notin {Some("door_open"), Some("door_close"),
                              Some("pizza"), Some("reset_pizza")}
              THEN AppendN(chat, t, 1, ChatMaxLen)
              ELSE chat,
     door |-> IF type \in {Some("door_open"), Some("door_close")}
              THEN AppendN(door, t,
                           IF Min(value, DoorValueCap) > 0
                           THEN Min(value, DoorValueCap) ELSE 0,
                           DoorMaxLen)
              ELSE door,
     pizza |-> IF type = Some("pizza") THEN pizza + value
               ELSE IF type = Some("reset_pizza") THEN 0
               ELSE pizza]

\* variant: a pizza event assigns its value to the counter
record_in_memory_pizza_assigned(type, value, chat, door, pizza, t) ==
    [chat |-> IF type = Some("chat_message")
              THEN AppendN(chat, t, 1, ChatMaxLen)
              ELSE chat,
     door |-> IF type \in {Some("door_open"), Some("door_close")}
              THEN AppendN(door, t,
                           IF Min(value, DoorValueCap) > 0
                           THEN Min(value, DoorValueCap) ELSE 0,
                           DoorMaxLen)
              ELSE door,
     pizza |-> IF type = Some("pizza") THEN value
               ELSE IF type = Some("reset_pizza") THEN 0
               ELSE pizza]

\* the if/elif chain of handle_event on the in-memory metrics: returns the
\* chat window, the door window and the pizza counter afterwards
record_in_memory(type, value, chat, door, pizza, t) ==
    [chat |-> IF type = Some("chat_message")
              THEN AppendN(chat, t, 1, ChatMaxLen)
              ELSE chat,
     door |-> IF type \in {Some("door_open"), Some("door_close")}
              THEN \* for _ in range(min(value, 100000))
                   AppendN(door, t,
                           IF Min(value, DoorValueCap) > 0
                           THEN Min(value, DoorValueCap) ELSE 0,
                           DoorMaxLen)
              ELSE door,
     pizza |-> IF type = Some("pizza") THEN pizza + value
               ELSE IF type = Some("reset_pizza") THEN 0
               ELSE pizza]

\* variant: the INSERT's failure is swallowed and the request is answered
\* as if the row had been stored
handle_event_insert_unchecked(type, value, insertOk) ==
    LET m1 == record_in_memory(type, value, chat_velocity, door_events,
                               pizza_count, now)
        stored == insertOk /\ type # None
        cs == calculate_chaos_score(lockFile, metrics_cache, pizza_cache,
                                    mongo, m1.chat, m1.door, now)
    IN  /\ pc = "idle"
        /\ posts' = posts + 1
        /\ chat_velocity' = m1.chat
        /\ door_events' = m1.door
        /\ pizza_count' = m1.pizza
        /\ events' = IF stored
                     THEN Append(events,
                                 [timestamp |-> now,
                                  metric_type |-> Val(type),
                                  value |-> value, details |-> ""])
                     ELSE events
        /\ metrics_cache' = cs.mcache
        /\ pizza_cache' = cs.pcache
        /\ resp' = [kind |-> "event", success |-> TRUE,
                    chaos_score |-> cs.ret]
        /\ UNCHANGED <<now, ticks, lockFile, mongo, pc, req>>
        /\ UNCHANGED <<hourly_stats, aggregator_thread, handlers>>
        /\ UNCHANGED <<indexer, indexer_cache, indexer_fetched,
                       MATRIX_ACCESS_TOKEN, poster_thread, room, outbox>>

\* variant: one row per metric_type, the INSERT replacing the earlier row
\* of the same type
handle_event_upsert(type, value, insertOk) ==
    LET m1 == record_in_memory(type, value, chat_velocity, door_events,
                               pizza_count, now)
        stored == insertOk /\ type # None
        cs == calculate_chaos_score(lockFile, metrics_cache, pizza_cache,
                                    mongo, m1.chat, m1.door, now)
    IN  /\ pc = "idle"
        /\ posts' = posts + 1
        /\ chat_velocity' = m1.chat
        /\ door_events' = m1.door
        /\ pizza_count' = m1.pizza
        /\ IF stored
           THEN /\ events' = Append(SelectSeq(events,
                                        LAMBDA e : e.metric_type # Val(type)),
                                    [timestamp |-> now,
                                     metric_type |-> Val(type),
                                     value |-> value, details |-> ""])
                /\ metrics_cache' = cs.mcache
                /\ pizza_cache' = cs.pcache
                /\ resp' = [kind |-> "event", success |-> TRUE,
                            chaos_score |-> cs.ret]
           ELSE /\ resp' = [kind |-> "crash"]
                /\ UNCHANGED <<events, metrics_cache, pizza_cache>>
        /\ UNCHANGED <<now, ticks, lockFile, mongo, pc, req>>
        /\ UNCHANGED <<hourly_stats, aggregator_thread, handlers>>
        /\ UNCHANGED <<indexer, indexer_cache, indexer_fetched,
                       MATRIX_ACCESS_TOKEN, poster_thread, room, outbox>>

\* handle_event: type is None when the body has no "type"; insertOk is the
\* outcome of the sqlite INSERT and commit
handle_event(type, value, insertOk) ==
    LET m1 == record_in_memory(type, value, chat_velocity, door_events,
                               pizza_count, now)
        chat1 == m1.chat
        door1 == m1.door
        pizza1 == m1.pizza
        \* metric_type TEXT NOT NULL: a NULL type is an IntegrityError
        stored == insertOk /\ type # None
        cs == calculate_chaos_score(lockFile, metrics_cache, pizza_cache,
                                    mongo, chat1, door1, now)
    IN  /\ pc = "idle"
        /\ posts' = posts + 1
        /\ chat_velocity' = chat1
        /\ door_events' = door1
        /\ pizza_count' = pizza1
        /\ IF stored
           THEN /\ events' = Append(events,
                                    [timestamp |-> now,
                                     metric_type |-> Val(type),
                                     value |-> value, details |-> ""])
                /\ metrics_cache' = cs.mcache
                /\ pizza_cache' = cs.pcache
                /\ resp' = [kind |-> "event", success |-> TRUE,
                            chaos_score |-> cs.ret]
           ELSE \* the exception leaves handle_event: no response is written
                /\ resp' = [kind |-> "crash"]
                /\ UNCHANGED <<events, metrics_cache, pizza_cache>>
        /\ UNCHANGED <<now, ticks, lockFile, mongo, pc, req>>
        /\ UNCHANGED <<hourly_stats, aggregator_thread, handlers>>
        /\ UNCHANGED <<indexer, indexer_cache, indexer_fetched,
                       MATRIX_ACCESS_TOKEN, poster_thread, room, outbox>>

\* the request body as do_POST receives it: bytes that decode as UTF-8 or
\* not, text that json.loads accepts or not, a JSON object or another value
BadUtf8 == [utf8 |-> FALSE, json |-> FALSE, dict |-> FALSE, data |-> << >>]
BadJson == [utf8 |-> TRUE, json |-> FALSE, dict |-> FALSE, data |-> << >>]
JsonValue == [utf8 |-> TRUE, json |-> TRUE, dict |-> FALSE, data |-> << >>]
JsonBody(data) == [utf8 |-> TRUE, json |-> TRUE, dict |-> TRUE, data |-> data]

\* an exception leaves the handler: nothing is written to the client
HandlerRaises ==
    /\ pc = "idle"
    /\ resp' = [kind |-> "crash"]
    /\ UNCHANGED <<now, ticks, posts, chat_velocity, door_events, pizza_count,
                   events, metrics_cache, pizza_cache, lockFile, mongo, pc,
                   req>>
    /\ UNCHANGED <<hourly_stats, aggregator_thread, handlers>>
    /\ UNCHANGED <<indexer, indexer_cache, indexer_fetched,
                   MATRIX_ACCESS_TOKEN, poster_thread, room, outbox>>

\* do_POST on /api/event
do_POST(raw, insertOk) ==
    IF ~raw.utf8
    THEN \* decode('utf-8') is outside the try
         HandlerRaises
    ELSE IF ~raw.json
    THEN PostMalformed
    ELSE IF ~raw.dict
    THEN \* data.get: AttributeError, not a JSONDecodeError
         HandlerRaises
    ELSE handle_event(IF "type" \in DOMAIN raw.data THEN Some(raw.data.type)
                      ELSE None,
                      Get(raw.data, "value", 1), insertOk)

\* at most limit events are posted in a run
PostEvents(limit, bodies, outcomes) ==
    /\ posts < limit
    /\ \E body \in bodies, insertOk \in outcomes :
           do_POST(JsonBody(body), insertOk)

PostEvent(bodies, outcomes) == PostEvents(MaxPosts, bodies, outcomes)

\* a request whose body is not a JSON object
PostRaw(raws) == \E raw \in raws : do_POST(raw, TRUE)

(* The indexer's message and room counts, cached together.  indexer.count  *)
(* and indexer.rooms are the outcomes the two mongosh queries would have    *)
(* now: None for a failure (timeout, non-zero exit, output that int()       *)
(* rejects), Some(n) for a count.                                           *)

\* ret is what the caller gets, fetched whether it is the answer of a query
\* made by this call
get_indexer_count(cache, src, t) ==
    IF cache.count # None /\ t - cache.timestamp < IndexerTTL
    THEN [ret |-> cache.count, cache |-> cache, fetched |-> FALSE]
    ELSE IF src.count # None
    THEN [ret |-> src.count,
          cache |-> [cache EXCEPT !.count = src.count, !.timestamp = t],
          fetched |-> TRUE]
    ELSE [ret |-> None, cache |-> cache, fetched |-> FALSE]

get_indexer_rooms(cache, src, t) ==
    IF cache.rooms # None /\ t - cache.timestamp < IndexerTTL
    THEN [ret |-> cache.rooms, cache |-> cache, fetched |-> FALSE]
    ELSE IF src.rooms # None
    THEN [ret |-> src.rooms,
          cache |-> [cache EXCEPT !.rooms = src.rooms, !.timestamp = t],
          fetched |-> TRUE]
    ELSE [ret |-> None, cache |-> cache, fetched |-> FALSE]

\* the indexer changes what its count and room queries answer
IndexerChange(src) ==
    /\ src # indexer
    /\ indexer' = src
    /\ resp' = NoResp
    /\ UNCHANGED <<now, ticks, posts, chat_velocity, door_events, pizza_count,
                   events, metrics_cache, pizza_cache, lockFile, mongo, pc,
                   req>>
    /\ UNCHANGED <<hourly_stats, aggregator_thread, handlers>>
    /\ UNCHANGED <<indexer_cache, indexer_fetched, MATRIX_ACCESS_TOKEN,
                   poster_thread, room, outbox>>

\* the end of serve_metrics: the indexer's counts are read and the response
\* is sent
send_metrics(data) ==
    LET c == get_indexer_count(indexer_cache, indexer, now)
        r == get_indexer_rooms(c.cache, indexer, now)
    IN  /\ indexer_cache' = r.cache
        /\ indexer_fetched' =
               [count |-> IF c.fetched THEN now ELSE indexer_fetched.count,
                rooms |-> IF r.fetched THEN now ELSE indexer_fetched.rooms]
        /\ resp' = [k \in DOMAIN data \cup {"matrix_indexer_messages",
                                            "matrix_indexer_rooms"} |->
                       IF k = "matrix_indexer_messages" THEN c.ret
                       ELSE IF k = "matrix_indexer_rooms" THEN r.ret
                       ELSE data[k]]

(* GET /api/metrics.  serve_metrics computes the score (at time t1), then  *)
(* reads the lock, the indexer and the pizza source a second time (at t2,  *)
(* from the lock file f2 and the indexer state m2) to build the response.  *)

\* variant: the score is reported as the engine returned it
serve_metrics_rest_undoubled(score0, f, mcache, pcache, m, chat, door, t) ==
    LET fenthouse == get_fenthouse_status(f, t)
        status0 == IF fenthouse.active THEN fenthouse.status_message ELSE None
        im == get_indexer_metrics(mcache, m, t)
        useIndexer == im.ret # None /\ Truthy(Val(im.ret))
        pz == get_cached_pizza_count(pcache, m, t)
    IN  [resp |-> [kind |-> "metrics",
                   chaos_score |-> score0,
                   chat_velocity_5min |->
                       IF useIndexer THEN Get(Val(im.ret), "fiveMin", 0)
                       ELSE CountRecent(chat, t, ChatHorizon),
                   chat_velocity_1hour |->
                       IF useIndexer THEN Get(Val(im.ret), "hour", 0)
                       ELSE Len(chat),
                   door_events_10min |->
                       IF useIndexer THEN Get(Val(im.ret), "tenMin", 0) \div 2
                       ELSE CountRecent(door, t, DoorHorizon),
                   pizza_count |-> pz.ret,
                   status |-> IF status0 = None THEN StatusLabel(score0)
                              ELSE Val(status0),
                   fenthouse_active |-> fenthouse.active,
                   fenthouse_countdown |-> fenthouse.countdown,
                   engine_score |-> score0],
         mcache |-> im.cache, pcache |-> pz.cache]

\* the part of serve_metrics after calculate_chaos_score: returns
\* [resp, mcache, pcache]
serve_metrics_rest(score0, f, mcache, pcache, m, chat, door, t) ==
    LET fenthouse == get_fenthouse_status(f, t)
        status0 == IF fenthouse.active THEN fenthouse.status_message ELSE None
        im == get_indexer_metrics(mcache, m, t)
        useIndexer == im.ret # None /\ Truthy(Val(im.ret))
        chat_5m == IF useIndexer THEN Get(Val(im.ret), "fiveMin", 0)
                   ELSE CountRecent(chat, t, ChatHorizon)
        chat_1h == IF useIndexer THEN Get(Val(im.ret), "hour", 0)
                   ELSE Len(chat)
        door_10m == IF useIndexer THEN Get(Val(im.ret), "tenMin", 0) \div 2
                    ELSE CountRecent(door, t, DoorHorizon)
        pz == get_cached_pizza_count(pcache, m, t)
        score == IF pz.ret > PizzapocalypseAt THEN score0 * 2 ELSE score0
        status == IF status0 = None THEN StatusLabel(score) ELSE Val(status0)
    IN  [resp |-> [kind |-> "metrics",
                   chaos_score |-> score,
                   chat_velocity_5min |-> chat_5m,
                   chat_velocity_1hour |-> chat_1h,
                   door_events_10min |-> door_10m,
                   pizza_count |-> pz.ret,
                   status |-> status,
                   fenthouse_active |-> fenthouse.active,
                   fenthouse_countdown |-> fenthouse.countdown,
                   engine_score |-> score0],
         mcache |-> im.cache, pcache |-> pz.cache]

\* variant: the handler drops the timestamps that left the horizon from
\* the windows while it counts them
ServeMetrics_prunes_windows ==
    LET cs == calculate_chaos_score(lockFile, metrics_cache, pizza_cache,
                                    mongo, chat_velocity, door_events, now)
        r == serve_metrics_rest(cs.ret, lockFile, cs.mcache, cs.pcache,
                                mongo, chat_velocity, door_events, now)
    IN  /\ pc = "idle"
        /\ metrics_cache' = r.mcache
        /\ pizza_cache' = r.pcache
        /\ send_metrics(r.resp)
        /\ chat_velocity' = SelectSeq(chat_velocity,
                                      LAMBDA w : now - w < ChatHorizon)
        /\ door_events' = SelectSeq(door_events,
                                    LAMBDA w : now - w < DoorHorizon)
        /\ UNCHANGED <<now, ticks, posts, pizza_count, events, lockFile,
                       mongo, pc, req>>
        /\ UNCHANGED <<hourly_stats, aggregator_thread, handlers>>
        /\ UNCHANGED <<indexer, MATRIX_ACCESS_TOKEN, poster_thread, room,
                       outbox>>

\* the whole handler, served at one instant
ServeMetrics ==
    LET cs == calculate_chaos_score(lockFile, metrics_cache, pizza_cache,
                                    mongo, chat_velocity, door_events, now)
        r == serve_metrics_rest(cs.ret, lockFile, cs.mcache, cs.pcache,
                                mongo, chat_velocity, door_events, now)
    IN  /\ pc = "idle"
        /\ metrics_cache' = r.mcache
        /\ pizza_cache' = r.pcache
        /\ send_metrics(r.resp)
        /\ UNCHANGED <<now, ticks, posts, chat_velocity, door_events,
                       pizza_count, events, lockFile, mongo, pc, req>>
        /\ UNCHANGED <<hourly_stats, aggregator_thread, handlers>>
        /\ UNCHANGED <<indexer, MATRIX_ACCESS_TOKEN, poster_thread, room,
                       outbox>>

\* the handler in two steps, the environment moving in between
MetricsBegin ==
    LET cs == calculate_chaos_score(lockFile, metrics_cache, pizza_cache,
                                    mongo, chat_velocity, door_events, now)
    IN  /\ pc = "idle"
        /\ pc' = "serve_metrics"
        /\ req' = [kind |-> "metrics", score |-> cs.ret]
        /\ metrics_cache' = cs.mcache
        /\ pizza_cache' = cs.pcache
        /\ resp' = NoResp
        /\ UNCHANGED <<now, ticks, posts, chat_velocity, door_events,
                       pizza_count, events, lockFile, mongo>>
        /\ UNCHANGED <<hourly_stats, aggregator_thread, handlers>>
        /\ UNCHANGED <<indexer, indexer_cache, indexer_fetched,
                       MATRIX_ACCESS_TOKEN, poster_thread, room, outbox>>

MetricsEnd ==
    LET r == serve_metrics_rest(req.score, lockFile, metrics_cache,
                                pizza_cache, mongo, chat_velocity,
                                door_events, now)
    IN  /\ pc = "serve_metrics"
        /\ pc' = "idle"
        /\ req' = NoReq
        /\ metrics_cache' = r.mcache
        /\ pizza_cache' = r.pcache
        /\ send_metrics(r.resp)
        /\ UNCHANGED <<now, ticks, posts, chat_velocity, door_events,
                       pizza_count, events, lockFile, mongo>>
        /\ UNCHANGED <<hourly_stats, aggregator_thread, handlers>>
        /\ UNCHANGED <<indexer, MATRIX_ACCESS_TOKEN, poster_thread, room,
                       outbox>>

(* The background aggregator of src/app.py *)

\* calculate_chaos_score of src/app.py: the windows and the local pizza
\* counter only, each term and the total capped
\* the four factors of the score
app_chat_factor(chat, t) ==
    IF Len(chat) > 0 THEN Min(CountRecent(chat, t, ChatHorizon) * 2, 40)
    ELSE 0

app_door_factor(door, t) ==
    IF Len(door) > 0 THEN Min(CountRecent(door, t, DoorHorizon) * 5, 30)
    ELSE 0

app_time_factor(t) == TimeOfDayBonus(HourOf(t))

\* variant: the pizza bonus is not capped
app_pizza_factor_uncapped(pizza) == IF pizza > 0 THEN pizza * 2 ELSE 0

app_pizza_factor(pizza) == IF pizza > 0 THEN Min(pizza * 2, 10) ELSE 0

app_calculate_chaos_score(chat, door, pizza, t) ==
    Min(app_chat_factor(chat, t) + app_door_factor(door, t)
        + app_time_factor(t) + app_pizza_factor(pizza), 100)

\* now.replace(minute=0, second=0, microsecond=0)
HourStart(t) == t - (t % 3600)

\* variant: INSERT OR REPLACE into a table emptied first
Upsert_replaces_table(table, hour, row) ==
    [h \in {hour} |-> row]

\* INSERT ... ON CONFLICT(hour) DO UPDATE
Upsert(table, hour, row) ==
    [h \in DOMAIN table \cup {hour} |-> IF h = hour THEN row ELSE table[h]]

\* variant: the loop body is not guarded, an exception ends the thread
background_aggregator_unguarded(dbOk) ==
    LET run == aggregator_thread.runs + 1
        row == [message_count |-> CountRecent(chat_velocity, now, 3600),
                door_opens |-> CountRecent(door_events, now, 3600),
                chaos_score |-> app_calculate_chaos_score(
                                    chat_velocity, door_events, pizza_count,
                                    now)]
    IN  /\ aggregator_thread.alive
        /\ aggregator_thread.runs < MaxRuns
        /\ hourly_stats' = IF dbOk
                           THEN Upsert(hourly_stats, HourStart(now), row)
                           ELSE hourly_stats
        /\ aggregator_thread' =
               [alive |-> dbOk, runs |-> run,
                failed |-> IF dbOk THEN aggregator_thread.failed
                           ELSE aggregator_thread.failed \cup {run}]
        /\ UNCHANGED <<now, ticks, posts, chat_velocity, door_events,
                       pizza_count, events, metrics_cache, pizza_cache,
                       lockFile, mongo, pc, req, resp, handlers>>
        /\ UNCHANGED <<indexer, indexer_cache, indexer_fetched,
                       MATRIX_ACCESS_TOKEN, poster_thread, room, outbox>>

\* one iteration of background_aggregator's loop; dbOk is the outcome of
\* its sqlite statements.  An exception is caught and printed, and the
\* thread sleeps until the next iteration
background_aggregator(dbOk) ==
    LET run == aggregator_thread.runs + 1
        row == [message_count |-> CountRecent(chat_velocity, now, 3600),
                door_opens |-> CountRecent(door_events, now, 3600),
                chaos_score |-> app_calculate_chaos_score(
                                    chat_velocity, door_events, pizza_count,
                                    now)]
    IN  /\ aggregator_thread.alive
        /\ aggregator_thread.runs < MaxRuns
        /\ hourly_stats' = IF dbOk
                           THEN Upsert(hourly_stats, HourStart(now), row)
                           ELSE hourly_stats
        /\ aggregator_thread' =
               [alive |-> TRUE, runs |-> run,
                failed |-> IF dbOk THEN aggregator_thread.failed
                           ELSE aggregator_thread.failed \cup {run}]
        /\ UNCHANGED <<now, ticks, posts, chat_velocity, door_events,
                       pizza_count, events, metrics_cache, pizza_cache,
                       lockFile, mongo, pc, req, resp, handlers>>
        /\ UNCHANGED <<indexer, indexer_cache, indexer_fetched,
                       MATRIX_ACCESS_TOKEN, poster_thread, room, outbox>>

(* record_event of src/app.py, run by concurrent request threads *)

\* the request threads of the Flask server
HandlerIds == {1, 2}

Without(f, h) == [x \in DOMAIN f \ {h} |-> f[x]]
With(f, h, v) == [x \in DOMAIN f \cup {h} |-> IF x = h THEN v ELSE f[x]]

\* thread h takes a request and runs record_event up to its first access
\* to the shared metrics: an append to a deque and the store of 0 are
\* single operations; metrics['pizza_count'] += value first reads the
\* counter
record_event_begin(h, body) ==
    LET type == body.type
        value == Get(body, "value", 1)
    IN  /\ h \notin DOMAIN handlers
        /\ posts' = posts + 1
        /\ chat_velocity' = IF type = "chat_message"
                            THEN AppendN(chat_velocity, now, 1, ChatMaxLen)
                            ELSE chat_velocity
        /\ door_events' = IF type \in {"door_open", "door_close"}
                          THEN AppendN(door_events, now, 1, DoorMaxLen)
                          ELSE door_events
        /\ pizza_count' = IF type = "reset_pizza" THEN 0 ELSE pizza_count
        /\ handlers' = With(handlers, h,
                            [pc |-> IF type = "pizza" THEN "store"
                                    ELSE "insert",
                             type |-> type, value |-> value,
                             loaded |-> pizza_count])
        /\ resp' = NoResp
        /\ UNCHANGED <<now, ticks, events, metrics_cache, pizza_cache,
                       lockFile, mongo, pc, req, hourly_stats,
                       aggregator_thread>>
        /\ UNCHANGED <<indexer, indexer_cache, indexer_fetched,
                       MATRIX_ACCESS_TOKEN, poster_thread, room, outbox>>

\* the second half of metrics['pizza_count'] += value: the sum of the
\* value read earlier and the event's value is stored
record_event_store(h) ==
    /\ h \in DOMAIN handlers
    /\ handlers[h].pc = "store"
    /\ pizza_count' = handlers[h].loaded + handlers[h].value
    /\ handlers' = [handlers EXCEPT ![h].pc = "insert"]
    /\ resp' = NoResp
    /\ UNCHANGED <<now, ticks, posts, chat_velocity, door_events, events,
                   metrics_cache, pizza_cache, lockFile, mongo, pc, req,
                   hourly_stats, aggregator_thread>>
    /\ UNCHANGED <<indexer, indexer_cache, indexer_fetched,
                   MATRIX_ACCESS_TOKEN, poster_thread, room, outbox>>

\* the INSERT, the commit and the response of record_event
record_event_insert(h) ==
    /\ h \in DOMAIN handlers
    /\ handlers[h].pc = "insert"
    /\ events' = Append(events,
                        [timestamp |-> now, metric_type |-> handlers[h].type,
                         value |-> handlers[h].value, details |-> ""])
    /\ handlers' = Without(handlers, h)
    /\ resp' = [kind |-> "event", success |-> TRUE,
                chaos_score |-> app_calculate_chaos_score(
                                    chat_velocity, door_events, pizza_count,
                                    now)]
    /\ UNCHANGED <<now, ticks, posts, chat_velocity, door_events,
                   pizza_count, metrics_cache, pizza_cache, lockFile, mongo,
                   pc, req, hourly_stats, aggregator_thread>>
    /\ UNCHANGED <<indexer, indexer_cache, indexer_fetched,
                   MATRIX_ACCESS_TOKEN, poster_thread, room, outbox>>

(* The Fenthouse poster thread of src/simple_app.py *)

\* variant: the thread posts whether or not the lock is active
fenthouse_poster_thread_ignores_lock(sendOk, raises) ==
    LET posted == /\ ~raises
                  /\ TokenSet(MATRIX_ACCESS_TOKEN)
                  /\ sendOk
    IN  /\ poster_thread.alive
        /\ now >= poster_thread.wake
        /\ room' = IF posted THEN Append(room, now) ELSE room
        /\ poster_thread' =
               [poster_thread EXCEPT
                    !.wake = now + PosterInterval,
                    !.iterations = @ + 1,
                    !.last_error = IF raises THEN Some(now) ELSE @]
        /\ resp' = NoResp
        /\ UNCHANGED <<now, ticks, posts, chat_velocity, door_events,
                       pizza_count, events, metrics_cache, pizza_cache,
                       lockFile, mongo, pc, req>>
        /\ UNCHANGED <<hourly_stats, aggregator_thread, handlers>>
        /\ UNCHANGED <<indexer, indexer_cache, indexer_fetched,
                       MATRIX_ACCESS_TOKEN, outbox>>

\* one iteration of the loop of fenthouse_poster_thread, run when its sleep
\* is over: the lock is read, a message is sent if it is active and the
\* token is set, the thread sleeps 300 seconds.  raises: an exception
\* leaves the try body before the message is sent (it is caught and
\* logged); sendOk: the homeserver accepts the message (post_to_fenthouse
\* catches every failure of the request itself)
fenthouse_poster_thread(sendOk, raises) ==
    LET fenthouse == get_fenthouse_status(lockFile, now)
        posted == /\ ~raises
                  /\ fenthouse.active
                  /\ TokenSet(MATRIX_ACCESS_TOKEN)
                  /\ sendOk
    IN  /\ poster_thread.alive
        /\ now >= poster_thread.wake
        /\ room' = IF posted THEN Append(room, now) ELSE room
        /\ poster_thread' =
               [poster_thread EXCEPT
                    !.wake = now + PosterInterval,
                    !.iterations = @ + 1,
                    !.last_error = IF raises THEN Some(now) ELSE @]
        /\ resp' = NoResp
        /\ UNCHANGED <<now, ticks, posts, chat_velocity, door_events,
                       pizza_count, events, metrics_cache, pizza_cache,
                       lockFile, mongo, pc, req>>
        /\ UNCHANGED <<hourly_stats, aggregator_thread, handlers>>
        /\ UNCHANGED <<indexer, indexer_cache, indexer_fetched,
                       MATRIX_ACCESS_TOKEN, outbox>>

(* The chat bridges.  A message is its lower-cased content as a sequence   *)
(* of phrases separated by blanks; each bridge's patterns are modelled by  *)
(* the phrases of the vocabulary they match.                               *)

Phrases ==
    {"hello", "pizza", "pizzas", "door opened", "chaos", "dongometer",
     "demonic"}

\* number of phrases of the message that are in the set
Count(content, phrases) ==
    Cardinality({i \in DOMAIN content : content[i] \in phrases})

Event(type, value) == [type |-> type, value |-> value]

\* re.compile(r'pizza|...') of the bridges and r'pizz|...' of the listener:
\* one match in each of these phrases
PIZZA_PATTERN == {"pizza", "pizzas"}
\* r'door.*(?:open|unlock|opened)|...'
DOOR_PATTERN == {"door opened"}
\* substring tests: 'dong' is in "dongometer"
CHAOS_KEYWORDS == {"chaos", "dongometer", "demonic"}
\* discord_bridge.py has no 'demonic'
DISCORD_CHAOS_KEYWORDS == {"chaos", "dongometer"}
\* webhook_integration.py: \bchaos\b, \bdong\b ... match whole words only
CHAOS_PATTERNS == {"chaos"}

\* the events matrix_bridge.process_matrix_message sends, in order
process_matrix_message(content) ==
    LET pizzas == Count(content, PIZZA_PATTERN)
        chaos_boost == IF Count(content, CHAOS_KEYWORDS) > 0 THEN 2 ELSE 1
    IN  (IF pizzas > 0 THEN <<Event("pizza", pizzas)>> ELSE << >>)
        \o (IF Count(content, DOOR_PATTERN) > 0
            THEN <<Event("door_open", 1)>> ELSE << >>)
        \o <<Event("chat_message", chaos_boost)>>

\* the events discord_bridge.on_discord_message sends
on_discord_message(content) ==
    LET pizza_matches == Count(content, PIZZA_PATTERN)
        chaos_boost == IF Count(content, DISCORD_CHAOS_KEYWORDS) > 0
                       THEN 2 ELSE 1
    IN  (IF pizza_matches > 0 THEN <<Event("pizza", pizza_matches)>>
         ELSE << >>)
        \o (IF Count(content, DOOR_PATTERN) > 0
            THEN <<Event("door_open", 1)>> ELSE << >>)
        \o <<Event("chat_message", chaos_boost)>>

\* the events webhook_integration.process_matrix_message sends: the first
\* pizza pattern that matches is counted (\bpizza\b before pizzas), the
\* chat message is sent, and a chaos word sends a second one
webhook_process_matrix_message(message) ==
    LET count == IF Count(message, {"pizza"}) > 0
                 THEN Count(message, {"pizza"})
                 ELSE Count(message, {"pizzas"})
    IN  (IF count > 0 THEN <<Event("pizza", count)>> ELSE << >>)
        \o (IF Count(message, DOOR_PATTERN) > 0
            THEN <<Event("door_open", 1)>> ELSE << >>)
        \o <<Event("chat_message", 1)>>
        \o (IF Count(message, CHAOS_PATTERNS) > 0
            THEN <<Event("chat_message", 2)>> ELSE << >>)

\* the events MatrixDongometerBot.process_message sends: nothing for an
\* empty message or one of the bot's own; multiplier is the content of
\* /tmp/dongometer_multiplier, None if it cannot be read as an integer
process_message(own, content, multiplier) ==
    IF content = << >> \/ own
    THEN << >>
    ELSE LET matches == Count(content, PIZZA_PATTERN)
             pizzas == IF multiplier # None
                            THEN matches * Val(multiplier) ELSE matches
             chaos_boost == IF Count(content, CHAOS_KEYWORDS) > 0
                            THEN 2 ELSE 1
         IN  (IF pizzas > 0 THEN <<Event("pizza", pizzas)>>
              ELSE << >>)
             \o (IF Count(content, DOOR_PATTERN) > 0
                 THEN <<Event("door_open", 1)>> ELSE << >>)
             \o <<Event("chat_message", chaos_boost)>>

\* a bridge processes a message: the events it sends
Bridge(name, content, sent) ==
    /\ outbox' = [bridge |-> name, content |-> content, sent |-> sent]
    /\ UNCHANGED <<now, ticks, posts, chat_velocity, door_events, pizza_count,
                   events, metrics_cache, pizza_cache, lockFile, mongo, pc,
                   req, resp>>
    /\ UNCHANGED <<hourly_stats, aggregator_thread, handlers>>
    /\ UNCHANGED <<indexer, indexer_cache, indexer_fetched,
                   MATRIX_ACCESS_TOKEN, poster_thread, room>>

MatrixBridge(content) ==
    Bridge("matrix_bridge", content, process_matrix_message(content))

DiscordBridge(content) ==
    Bridge("discord_bridge", content, on_discord_message(content))

WebhookIntegration(content) ==
    Bridge("webhook_integration", content,
           webhook_process_matrix_message(content))

MatrixListener(own, content, multiplier) ==
    Bridge(IF own THEN "matrix_listener_own" ELSE "matrix_listener", content,
           process_message(own, content, multiplier))

(* Specifications *)

\* the scoring path: no lock file, events that feed the score, an indexer
\* that comes and goes
ScoreTicks == {5, 300}
IndexerStates == [metrics : {None, Some(Counts)}, pizza : PizzaAnswers]
ScoreBodies ==
    {Body("chat_message", 1), Body("door_open", 1), Body("pizza", 15000)}

Next ==
    \/ \E d \in ScoreTicks : Tick(d)
    \/ \E m \in IndexerStates : MongoChange(m)
    \/ PostEvent(ScoreBodies, {TRUE})
    \/ ServeMetrics

Spec == Init /\ [][Next]_vars

\* the override lock: an operator rewrites the lock file and time passes,
\* for each state of the indexer
InitLock ==
    /\ now = StartTime
    /\ ticks = 0
    /\ posts = 0
    /\ chat_velocity = << >>
    /\ door_events = << >>
    /\ pizza_count = 0
    /\ events = << >>
    /\ metrics_cache = EmptyCache
    /\ pizza_cache = EmptyPizzaCache
    /\ lockFile = NoLockFile
    /\ mongo \in [metrics : MetricsAnswers, pizza : {None, Some(15000)}]
    /\ pc = "idle"
    /\ req = NoReq
    /\ resp = NoResp
    /\ hourly_stats = << >>
    /\ aggregator_thread = AggregatorStart
    /\ handlers = NoHandlers
    /\ indexer = IndexerDown
    /\ indexer_cache = EmptyIndexerCache
    /\ indexer_fetched = NeverFetched
    /\ MATRIX_ACCESS_TOKEN = None
    /\ poster_thread = start_fenthouse_poster(None)
    /\ room = << >>
    /\ outbox = NoOutbox

LockTicks == {5, 55}
LockFiles == {NoLockFile} \cup ValidLocks \cup BrokenLocks

NextLock ==
    \/ \E d \in LockTicks : Tick(d)
    \/ \E f \in LockFiles : WriteLock(f)
    \/ PostEvent({Body("chat_message", 1)}, {TRUE})
    \/ ServeMetrics

SpecLock == InitLock /\ [][NextLock]_vars

\* the score as a function of the hour and of the pizza count: the inputs
\* are drawn by the initial state, the handler is applied to them
Hours == 0 .. 23
PizzaInputs ==
    {0, 1, 4, 5, 6, 10, 9999, 10000, 10001, 10002, 15000, 99999, 100000}

InitInputs ==
    /\ now \in {h * 3600 : h \in Hours} \cup {h * 3600 + 3599 : h \in Hours}
    /\ ticks = 0
    /\ posts = 0
    /\ chat_velocity = << >>
    /\ door_events = << >>
    /\ pizza_count = 0
    /\ events = << >>
    /\ metrics_cache = EmptyCache
    /\ pizza_cache = EmptyPizzaCache
    /\ lockFile = NoLockFile
    /\ mongo \in [metrics : {None}, pizza : {Some(p) : p \in PizzaInputs}]
    /\ pc = "idle"
    /\ req = NoReq
    /\ resp = NoResp
    /\ hourly_stats = << >>
    /\ aggregator_thread = AggregatorStart
    /\ handlers = NoHandlers
    /\ indexer = IndexerDown
    /\ indexer_cache = EmptyIndexerCache
    /\ indexer_fetched = NeverFetched
    /\ MATRIX_ACCESS_TOKEN = None
    /\ poster_thread = start_fenthouse_poster(None)
    /\ room = << >>
    /\ outbox = NoOutbox

NextInputs == ServeMetrics

SpecInputs == InitInputs /\ [][NextInputs]_vars

\* the status label as a function of the score: the indexer's message count
\* and the hour put the score on either side of every band edge
BandEdges == {20, 40, 60, 80, 100, 200, 500, 1000, 42068}
BandMessageCounts ==
    {(b - 20) \div 2 : b \in BandEdges} \cup {(b - 14) \div 2 : b \in BandEdges}
BandHours == {5, 14, 20}

InitBands ==
    /\ now \in {h * 3600 : h \in BandHours}
    /\ ticks = 0
    /\ posts = 0
    /\ chat_velocity = << >>
    /\ door_events = << >>
    /\ pizza_count = 0
    /\ events = << >>
    /\ metrics_cache = EmptyCache
    /\ pizza_cache = EmptyPizzaCache
    /\ lockFile = NoLockFile
    /\ mongo \in [metrics : {Some([fiveMin |-> k, tenMin |-> 0, hour |-> k]) :
                                 k \in BandMessageCounts},
                    pizza : {None, Some(100000)}]
    /\ pc = "idle"
    /\ req = NoReq
    /\ resp = NoResp
    /\ hourly_stats = << >>
    /\ aggregator_thread = AggregatorStart
    /\ handlers = NoHandlers
    /\ indexer = IndexerDown
    /\ indexer_cache = EmptyIndexerCache
    /\ indexer_fetched = NeverFetched
    /\ MATRIX_ACCESS_TOKEN = None
    /\ poster_thread = start_fenthouse_poster(None)
    /\ room = << >>
    /\ outbox = NoOutbox

NextBands == ServeMetrics

SpecBands == InitBands /\ [][NextBands]_vars

\* the end-to-end scenario of test_messages.py: chat messages posted in the
\* afternoon, then GET /api/metrics, with the indexer reachable or not
ScenarioHour == 14

InitChat ==
    /\ now = ScenarioHour * 3600
    /\ ticks = 0
    /\ posts = 0
    /\ chat_velocity = << >>
    /\ door_events = << >>
    /\ pizza_count = 0
    /\ events = << >>
    /\ metrics_cache = EmptyCache
    /\ pizza_cache = EmptyPizzaCache
    /\ lockFile = NoLockFile
    /\ mongo \in [metrics : {None, Some(Counts)}, pizza : {None, Some(5)}]
    /\ pc = "idle"
    /\ req = NoReq
    /\ resp = NoResp
    /\ hourly_stats = << >>
    /\ aggregator_thread = AggregatorStart
    /\ handlers = NoHandlers
    /\ indexer = IndexerDown
    /\ indexer_cache = EmptyIndexerCache
    /\ indexer_fetched = NeverFetched
    /\ MATRIX_ACCESS_TOKEN = None
    /\ poster_thread = start_fenthouse_poster(None)
    /\ room = << >>
    /\ outbox = NoOutbox

ScenarioBodies == {Body("chat_message", 1), Body("door_open", 1)}

NextChat ==
    \/ Tick(150)
    \/ PostEvents(MaxBurst, ScenarioBodies, {TRUE})
    \/ ServeMetrics

SpecChat == InitChat /\ [][NextChat]_vars

\* the windows at capacity.  The run starts either from the state after
\* construction or from the state that two bursts of chat messages (200 s
\* and 100 s ago) and one burst of door events (300 s ago) leave behind: a
\* chat window one short of its capacity, a door window one short of its
\* capacity, and the events stored.  The indexer is unreachable.
BurstChat ==
    [i \in 1..(ChatMaxLen - 1) |->
        IF 2 * i <= ChatMaxLen THEN StartTime - 200 ELSE StartTime - 100]
BurstDoor == [i \in 1..(DoorMaxLen - 1) |-> StartTime - 300]
StoredEvents(window, type) ==
    [i \in 1..Len(window) |->
        [timestamp |-> window[i], metric_type |-> type, value |-> 1,
         details |-> ""]]
DoorBurst == MaxPosts + 1

InitWindows ==
    /\ now = StartTime
    /\ ticks = 0
    /\ posts = 0
    /\ \/ /\ chat_velocity = << >>
          /\ door_events = << >>
          /\ events = << >>
       \/ /\ chat_velocity = BurstChat
          /\ door_events = BurstDoor
          /\ events = StoredEvents(BurstDoor, "door_open")
                      \o StoredEvents(BurstChat, "chat_message")
    /\ pizza_count = 0
    /\ metrics_cache = EmptyCache
    /\ pizza_cache = EmptyPizzaCache
    /\ lockFile = NoLockFile
    /\ mongo = [metrics |-> None, pizza |-> None]
    /\ pc = "idle"
    /\ req = NoReq
    /\ resp = NoResp
    /\ hourly_stats = << >>
    /\ aggregator_thread = AggregatorStart
    /\ handlers = NoHandlers
    /\ indexer = IndexerDown
    /\ indexer_cache = EmptyIndexerCache
    /\ indexer_fetched = NeverFetched
    /\ MATRIX_ACCESS_TOKEN = None
    /\ poster_thread = start_fenthouse_poster(None)
    /\ room = << >>
    /\ outbox = NoOutbox

WindowBodies ==
    {Body("chat_message", 1), Body("door_open", 1), Body("door_close", 30)}

NextWindows ==
    \/ Tick(200)
    \/ PostEvents(DoorBurst, WindowBodies, {TRUE})
    \/ ServeMetrics

SpecWindows == InitWindows /\ [][NextWindows]_vars

\* the sources path: every outcome of the two queries (failure, counts,
\* a JSON line without the count keys, an empty object; failure or a
\* pizza count), a lock file of each kind, and time passing by more than
\* both TTLs
SourceTicks == {40}
SourceStates == [metrics : MetricsAnswers, pizza : {None, Some(15000)}]
SourceLocks ==
    {NoLockFile,
     LockContent(<<IntPart(StartTime), IntPart(60)>>),
     LockContent(<<IntPart(StartTime), TextPart("1h")>>)}
SourceBodies == {Body("chat_message", 1)}

NextSources ==
    \/ \E d \in SourceTicks : Tick(d)
    \/ \E m \in SourceStates : MongoChange(m)
    \/ \E f \in SourceLocks : WriteLock(f)
    \/ PostEvent(SourceBodies, {TRUE})
    \/ ServeMetrics

SpecSources == Init /\ [][NextSources]_vars

\* the caching path: GETs while the sources change their answers and time
\* passes by less than the indexer TTL, by exactly it, and by amounts that
\* add up to just below and to exactly the pizza TTL
CacheTicks == {3, 5, 25}
CacheStates ==
    [metrics : {None, Some(Counts), Some([warning |-> 1])},
     pizza : PizzaAnswers]

NextCache ==
    \/ \E d \in CacheTicks : Tick(d)
    \/ \E m \in CacheStates : MongoChange(m)
    \/ ServeMetrics

SpecCache == Init /\ [][NextCache]_vars

\* the aggregator path: events and GETs while the aggregator thread runs
\* (or does not) at any moment, its database statements succeeding or
\* failing, five minutes or an hour apart
AggregatorTicks == {300, 3600}
AggregatorBodies ==
    {Body("chat_message", 1), Body("door_open", 1), Body("pizza", 3)}

NextAggregator ==
    \/ \E d \in AggregatorTicks : Tick(d)
    \/ PostEvent(AggregatorBodies, {TRUE})
    \/ ServeMetrics
    \/ background_aggregator(TRUE)
    \/ background_aggregator(FALSE)

SpecAggregator == Init /\ [][NextAggregator]_vars

\* the threaded server of src/app.py: two request threads and the
\* aggregator interleave step by step; events with the default or a
\* positive value
ThreadPosts == MaxPosts + 2
ThreadBodies ==
    {BodyNoValue("chat_message"), BodyNoValue("door_open"),
     Body("pizza", 3), BodyNoValue("reset_pizza")}

NextThreads ==
    \/ \E h \in HandlerIds, body \in ThreadBodies :
           posts < ThreadPosts /\ record_event_begin(h, body)
    \/ \E h \in HandlerIds : record_event_store(h)
    \/ \E h \in HandlerIds : record_event_insert(h)
    \/ background_aggregator(TRUE)
    \/ background_aggregator(FALSE)

SpecThreads == Init /\ [][NextThreads]_vars

\* the GET handler in two steps: the clock advances and the lock file is
\* written between the score computation and the rest of serve_metrics
NextRace ==
    \/ \E d \in LockTicks : Tick(d)
    \/ \E f \in LockFiles : WriteLock(f)
    \/ MetricsBegin
    \/ MetricsEnd

SpecRace == Init /\ [][NextRace]_vars

\* the GET handler in two steps: the sources change their answers and
\* the clock advances between the score computation and the second read
\* of the sources
NextRaceSources ==
    \/ \E d \in CacheTicks : Tick(d)
    \/ \E m \in CacheStates : MongoChange(m)
    \/ MetricsBegin
    \/ MetricsEnd

SpecRaceSources == Init /\ [][NextRaceSources]_vars

\* the ingestion path: every kind of request body, an INSERT that succeeds
\* or fails, the indexer unreachable, and time passing by minutes or by
\* more than an hour
EventBodies ==
    {Body("chat_message", 1), Body("chat_message", 7),
     BodyNoValue("chat_message"),
     Body("door_open", 3), Body("door_close", 60), Body("door_open", -2),
     Body("pizza", 3), Body("pizza", -5), Body("reset_pizza", 1),
     Body("glizz", 1), BodyNoType(1)}

EventTicks == {200, 3700}
RawBodies == {BadUtf8, BadJson, JsonValue}

NextEvents ==
    \/ \E d \in EventTicks : Tick(d)
    \/ PostEvent(EventBodies, {TRUE})
    \/ PostEvent(EventBodies, {FALSE})
    \/ PostRaw(RawBodies)
    \/ ServeMetrics

SpecEvents == Init /\ [][NextEvents]_vars

\* the indexer's message and room counts: the two queries succeed and
\* fail independently while time passes
IndexerTicks == {30, 60}
IndexerStates2 == [count : {None, Some(1200), Some(1300)},
                   rooms : {None, Some(7)}]

NextIndexer ==
    \/ \E d \in IndexerTicks : Tick(d)
    \/ \E src \in IndexerStates2 : IndexerChange(src)
    \/ ServeMetrics

SpecIndexer == Init /\ [][NextIndexer]_vars

\* the poster thread: the server starts with or without a token, an
\* operator rewrites the lock file, time passes
Tokens == {None, Some(""), Some("syt_token")}
PosterTicks == {5, 300}
PosterLocks ==
    {NoLockFile,
     LockContent(<<IntPart(StartTime), IntPart(200)>>),
     LockContent(<<IntPart(StartTime), IntPart(3725)>>)}
PosterOutcomes == [sendOk : BOOLEAN, raises : BOOLEAN]

InitPoster ==
    /\ now = StartTime
    /\ ticks = 0
    /\ posts = 0
    /\ chat_velocity = << >>
    /\ door_events = << >>
    /\ pizza_count = 0
    /\ events = << >>
    /\ metrics_cache = EmptyCache
    /\ pizza_cache = EmptyPizzaCache
    /\ lockFile \in PosterLocks
    /\ mongo = [metrics |-> None, pizza |-> None]
    /\ pc = "idle"
    /\ req = NoReq
    /\ resp = NoResp
    /\ hourly_stats = << >>
    /\ aggregator_thread = AggregatorStart
    /\ handlers = NoHandlers
    /\ indexer = IndexerDown
    /\ indexer_cache = EmptyIndexerCache
    /\ indexer_fetched = NeverFetched
    /\ MATRIX_ACCESS_TOKEN \in Tokens
    /\ poster_thread = start_fenthouse_poster(MATRIX_ACCESS_TOKEN)
    /\ room = << >>
    /\ outbox = NoOutbox

NextPoster ==
    \/ \E d \in PosterTicks : Tick(d)
    \/ \E f \in PosterLocks : WriteLock(f)
    \/ \E o \in PosterOutcomes : fenthouse_poster_thread(o.sendOk, o.raises)
    \/ ServeMetrics

SpecPoster == InitPoster /\ [][NextPoster]_vars

\* the bridges: each processes messages of up to two phrases
MaxPhrases == 2
Messages == UNION {[1 .. n -> Phrases] : n \in 0 .. MaxPhrases}
Multipliers == {None, Some(0), Some(3)}

NextBridges ==
    \/ \E content \in Messages : MatrixBridge(content)
    \/ \E content \in Messages : DiscordBridge(content)
    \/ \E content \in Messages : WebhookIntegration(content)
    \/ \E content \in Messages, multiplier \in Multipliers :
           MatrixListener(FALSE, content, multiplier)
    \/ \E content \in Messages : MatrixListener(TRUE, content, None)

SpecBridges == Init /\ [][NextBridges]_vars

\* the capped server of src/app.py started on windows and a pizza counter
\* left by earlier events, at an hour of each band of the time-of-day
\* factor
CappedTimes == {StartTime, 9 * 3600, 15 * 3600, 21 * 3600}
CappedChats == {0, 21}
CappedDoors == {0, 7}
CappedPizzas == {-5, 0, 4, 6}
CappedTicks == {400}
CappedHandlers == {1}
CappedBodies == {BodyNoValue("chat_message"), Body("pizza", 3)}

InitCapped ==
    /\ now \in CappedTimes
    /\ ticks = 0
    /\ posts = 0
    /\ \E n \in CappedChats : chat_velocity = [i \in 1 .. n |-> now - 10]
    /\ \E n \in CappedDoors : door_events = [i \in 1 .. n |-> now - 20]
    /\ pizza_count \in CappedPizzas
    /\ events = StoredEvents(door_events, "door_open")
                \o StoredEvents(chat_velocity, "chat_message")
                \o (IF pizza_count = 0 THEN << >>
                    ELSE <<[timestamp |-> now - 5, metric_type |-> "pizza",
                            value |-> pizza_count, details |-> ""]>>)
    /\ metrics_cache = EmptyCache
    /\ pizza_cache = EmptyPizzaCache
    /\ lockFile = NoLockFile
    /\ mongo = [metrics |-> None, pizza |-> None]
    /\ pc = "idle"
    /\ req = NoReq
    /\ resp = NoResp
    /\ hourly_stats = << >>
    /\ aggregator_thread = AggregatorStart
    /\ handlers = NoHandlers
    /\ indexer = IndexerDown
    /\ indexer_cache = EmptyIndexerCache
    /\ indexer_fetched = NeverFetched
    /\ MATRIX_ACCESS_TOKEN = None
    /\ poster_thread = start_fenthouse_poster(None)
    /\ room = << >>
    /\ outbox = NoOutbox

NextCapped ==
    \/ \E d \in CappedTicks : Tick(d)
    \/ \E h \in CappedHandlers, body \in CappedBodies :
           posts < MaxPosts /\ record_event_begin(h, body)
    \/ \E h \in CappedHandlers : record_event_store(h)
    \/ \E h \in CappedHandlers : record_event_insert(h)
    \/ background_aggregator(TRUE)

SpecCapped == InitCapped /\ [][NextCapped]_vars

----------------------------------------------------------------------------
(* What a response shows of the engine, and what the claims expect of it *)

\* the last response carries a value returned by calculate_chaos_score
EngineCall == resp.kind \in {"event", "metrics"}
EngineScore ==
    IF resp.kind = "event" THEN resp.chaos_score ELSE resp.engine_score

\* OverrideLock of the specification: a record (activated_at, duration,
\* message), active iff now < activated_at + duration
IsLockRecord(f) ==
    /\ f.exists /\ f.readable
    /\ Len(f.parts) >= 2
    /\ f.parts[1].int /\ f.parts[2].int
LockExpiry(f) == f.parts[1].n + f.parts[2].n
LockRecordActive(f, t) == IsLockRecord(f) /\ t < LockExpiry(f)
LockRecordMessage(f) ==
    IF Len(f.parts) >= 3 THEN f.parts[3].text ELSE DefaultLockMsg

\* the indexer counts in force after a score computation at the current
\* instant: a cache entry younger than the TTL, else nothing
FreshCounts ==
    IF metrics_cache.data # None
       /\ now - metrics_cache.timestamp < MetricsTTL
       /\ Val(metrics_cache.data) # << >>
    THEN metrics_cache.data ELSE None

\* the pizza count in force after a score computation
PizzaInForce ==
    IF pizza_cache.count # None THEN Val(pizza_cache.count) ELSE 0

WindowCount(window, horizon) ==
    Cardinality({i \in 1..Len(window) : now - window[i] < horizon})

ExpectedMessages ==
    IF FreshCounts # None THEN Get(Val(FreshCounts), "fiveMin", 0)
    ELSE WindowCount(chat_velocity, ChatHorizon)
ExpectedDoors ==
    IF FreshCounts # None THEN Get(Val(FreshCounts), "tenMin", 0) \div 2
    ELSE WindowCount(door_events, DoorHorizon)

ExpectedTimeBonus(h) ==
    CASE 0 <= h /\ h < 6 -> 20
      [] 6 <= h /\ h < 12 -> 5
      [] 12 <= h /\ h < 18 -> 10
      [] 18 <= h /\ h < 24 -> 15

ExpectedPizzaBonus(p) ==
    CASE p = 0 -> 0
      [] 0 < p /\ p <= 10000 -> Min(2 * p, 10)
      [] p > 10000 -> Min(2 * p, 10) + Log10Times50(p)

\* recent_messages*2 + recent_doors*5 + time_of_day_bonus + pizza_bonus
ExpectedScore ==
    ExpectedMessages * 2 + ExpectedDoors * 5
    + ExpectedTimeBonus(HourOf(now)) + ExpectedPizzaBonus(PizzaInForce)

----------------------------------------------------------------------------
(* Claims *)

\* C1: whenever the override lock is active, calculate_chaos_score returns
\* exactly the sentinel 42069, whatever the windows, the pizza count, the
\* hour and the state of the external metrics source are.
C1_LockForcesSentinel ==
    (EngineCall /\ LockRecordActive(lockFile, now)) => EngineScore = SENTINEL

\* C1 witness: the engine was called under an active two-field lock while
\* the chat window was not empty and the indexer reported 15000 pizzas
C1_Witness ==
    /\ EngineCall /\ LockRecordActive(lockFile, now)
    /\ Len(lockFile.parts) = 2
    /\ chat_velocity # << >>
    /\ mongo.pizza = Some(15000)
    /\ mongo.metrics # None
    /\ EngineScore = SENTINEL

\* C2: for a lock record (t0, d) the lock is active exactly when
\* now < t0 + d: a score query before t0 + d yields the sentinel, a query at
\* or after t0 + d yields the normal computation, the record still in place.
C2_LockActiveUntilExpiry ==
    (EngineCall /\ IsLockRecord(lockFile)) =>
        /\ EngineScore = (IF now < LockExpiry(lockFile) THEN SENTINEL
                          ELSE ExpectedScore)
        /\ resp.kind = "metrics" =>
               (resp.fenthouse_active <=> now < LockExpiry(lockFile))

\* C2 witness: a query exactly at t0 + d, the lock record still in the file
C2_Witness ==
    /\ EngineCall /\ IsLockRecord(lockFile)
    /\ now = LockExpiry(lockFile)
    /\ EngineScore = ExpectedScore
    /\ EngineScore # SENTINEL

\* C3 (as stated): while the override lock is active, every GET /api/metrics
\* response reports chaos_score = 42069 and status = the lock's message,
\* whatever the pizza count, the windows and the external source are.
C3_MetricsUnderLock ==
    (resp.kind = "metrics" /\ LockRecordActive(lockFile, now)) =>
        /\ resp.chaos_score = SENTINEL
        /\ resp.status = LockRecordMessage(lockFile)

\* C4: the lock check fails open: with the lock file missing, unreadable,
\* shorter than two fields or holding a non-integer time or duration, the
\* status is inactive and the score is the normal computation.
C4_LockFailsOpen ==
    (EngineCall /\ ~IsLockRecord(lockFile)) =>
        /\ get_fenthouse_status(lockFile, now) = InactiveStatus
        /\ EngineScore = ExpectedScore
        /\ resp.kind = "metrics" =>
               /\ ~resp.fenthouse_active
               /\ resp.fenthouse_countdown = None

\* C4 witness: a score computed while the lock file holds a non-integer
\* duration
C4_Witness ==
    /\ EngineCall
    /\ lockFile.exists /\ lockFile.readable /\ Len(lockFile.parts) >= 2
    /\ ~lockFile.parts[2].int
    /\ EngineScore = ExpectedScore

\* C5: with the lock inactive, calculate_chaos_score returns
\* recent_messages*2 + recent_doors*5 + time_of_day_bonus + pizza_bonus, no
\* term and no total being capped.
C5_ScoreIsUncappedSum ==
    (EngineCall /\ ~LockRecordActive(lockFile, now)) =>
        EngineScore = ExpectedScore

\* C5 witness: a score above every cap of the capped variants (40 for chat,
\* 30 for doors, 100 in total)
C5_Witness ==
    /\ EngineCall /\ ~LockRecordActive(lockFile, now)
    /\ EngineScore = ExpectedScore
    /\ EngineScore > 100
    /\ ExpectedPizzaBonus(PizzaInForce) > 10

\* the part of the score that comes from messages and doors
ActivityScore ==
    EngineScore - ExpectedTimeBonus(HourOf(now))
    - ExpectedPizzaBonus(PizzaInForce)

\* C6: with the lock inactive, recent_messages and recent_doors are the
\* indexer's 5-minute count and its 10-minute count halved whenever the
\* indexer returns counts, the windows then being ignored; when the indexer
\* fails they are the in-memory window counts (chat 5 min, door 10 min).
C6_SourcePreference ==
    (EngineCall /\ ~LockRecordActive(lockFile, now)) =>
        /\ mongo.metrics = Some(Counts) => FreshCounts # None
        /\ FreshCounts # None =>
               ActivityScore = 2 * Val(FreshCounts).fiveMin
                               + 5 * (Val(FreshCounts).tenMin \div 2)
        /\ FreshCounts = None =>
               ActivityScore = 2 * WindowCount(chat_velocity, ChatHorizon)
                               + 5 * WindowCount(door_events, DoorHorizon)

\* C6 witness: the indexer's counts are used although a window is not empty
C6_Witness ==
    /\ EngineCall /\ ~LockRecordActive(lockFile, now)
    /\ mongo.metrics = Some(Counts)
    /\ WindowCount(door_events, DoorHorizon) > 0
    /\ ActivityScore = 2 * 3 + 5 * 2

\* C6, the fallback: the indexer fails, an expired cache entry exists, and
\* the score comes from a non-empty window
C6_FallbackReached ==
    /\ EngineCall /\ ~LockRecordActive(lockFile, now)
    /\ mongo.metrics = None /\ metrics_cache.data # None /\ FreshCounts = None
    /\ WindowCount(chat_velocity, ChatHorizon) > 0
    /\ ActivityScore = 2 * WindowCount(chat_velocity, ChatHorizon)
                       + 5 * WindowCount(door_events, DoorHorizon)

\* C7: the time-of-day bonus is a total step function of the hour:
\* +20 for 0<=h<6, +5 for 6<=h<12, +10 for 12<=h<18, +15 for 18<=h<24; every
\* hour is in exactly one bucket and one bonus is added per computation.
C7_TimeOfDayBonus ==
    (resp.kind = "metrics" /\ PizzaInForce = 0) =>
        LET h == HourOf(now)
            buckets == {<<0, 6, 20>>, <<6, 12, 5>>, <<12, 18, 10>>,
                        <<18, 24, 15>>}
            mine == {b \in buckets : b[1] <= h /\ h < b[2]}
        IN  /\ h \in Hours
            /\ Cardinality(mine) = 1
            /\ \A b \in mine : resp.engine_score = b[3]

\* C7 witness: a score computed at 06:00:00, the first second of the morning
C7_Witness ==
    /\ resp.kind = "metrics" /\ PizzaInForce = 0
    /\ now = 6 * 3600
    /\ resp.engine_score = 5

\* the pizza bonus inside the score of the last response
ObservedPizzaBonus == resp.engine_score - ExpectedTimeBonus(HourOf(now))

\* C8: the pizza bonus is 0 for pizza_count = 0, min(2*pizza_count, 10) up
\* to 10000 and min(2*pizza_count, 10) + 50*log10(pizza_count) above; it is
\* non-decreasing, with bonus(0) = 0, bonus(5) = 10 and bonus(10001) > 60.
C8_PizzaBonus ==
    resp.kind = "metrics" =>
        LET p == resp.pizza_count
        IN  /\ ObservedPizzaBonus = ExpectedPizzaBonus(p)
            /\ p = 0 => ObservedPizzaBonus = 0
            /\ p = 5 => ObservedPizzaBonus = 10
            /\ p = 10001 => ObservedPizzaBonus > 60
            /\ p > 10000 => ObservedPizzaBonus >= 10 + 50 * 4
            /\ \A q \in PizzaInputs :
                   q <= p => PizzaBonus(q) <= ObservedPizzaBonus

\* C8 witness: the bonus of 10001 pizzas, the first count that scales
C8_Witness ==
    /\ resp.kind = "metrics"
    /\ resp.pizza_count = 10001
    /\ ObservedPizzaBonus = 210

\* C9: in GET /api/metrics the engine's score is multiplied by 2 when
\* pizza_count > 10000, before the status label is chosen and before it is
\* reported, and is reported unchanged otherwise; the doubled score holds
\* the log-scaling bonus too.
C9_PizzapocalypseDoubling ==
    (resp.kind = "metrics" /\ ~LockRecordActive(lockFile, now)) =>
        /\ resp.engine_score = ExpectedScore
        /\ resp.pizza_count > 10000 =>
               /\ resp.chaos_score = 2 * resp.engine_score
               /\ resp.chaos_score
                      >= 2 * (10 + Log10Times50(resp.pizza_count))
        /\ resp.pizza_count <= 10000 =>
               resp.chaos_score = resp.engine_score
        /\ resp.status = StatusLabel(resp.chaos_score)

\* C9 witness: a doubled score whose label differs from the label of the
\* engine's score
C9_Witness ==
    /\ resp.kind = "metrics" /\ ~LockRecordActive(lockFile, now)
    /\ resp.pizza_count = 15000
    /\ resp.chaos_score = 2 * resp.engine_score
    /\ StatusLabel(resp.chaos_score) # StatusLabel(resp.engine_score)
    /\ resp.status = StatusLabel(resp.chaos_score)

\* C10 (as stated): the pizza count used for scoring is the local
\* PizzaCounter when the external source is not available, so once
\* POST /api/event {type: pizza, value: 15000} was handled with the lock
\* inactive, GET /api/metrics reports pizza_count > 10000 and a score with
\* the log-scaling bonus and the x2 multiplier.
C10_LocalPizzaCounterCounts ==
    (/\ resp.kind = "metrics" /\ ~LockRecordActive(lockFile, now)
     /\ mongo.pizza = None /\ pizza_cache.count = None
     /\ pizza_count >= 15000) =>
        /\ resp.pizza_count = pizza_count
        /\ resp.pizza_count > 10000
        /\ resp.chaos_score = 2 * resp.engine_score
        /\ resp.engine_score >= 10 + Log10Times50(pizza_count)

\* C11: with the lock inactive the status label of GET /api/metrics is
\* decided by the reported score alone, through ten ordered bands that do
\* not overlap and whose upper edges are inclusive: up to 20 calm, up to 40
\* active, up to 60, 80, 100, 200, 500, 1000, then below 42069 heat death,
\* and the fenthouse label from 42069 on; so every score has exactly one
\* label, 20 is calm and the next score above 20 is active.
BandLabels ==
    <<"CALM", "ACTIVE", "CHAOTIC", "DEMONIC", "APOCALYPSE", "TRUE APOCALYPSE",
      "COSMIC HORROR", "MULTIVERSE COLLAPSE", "HEAT DEATH OF UNIVERSE",
      "FENTHOUSE">>
BandUpper == <<20, 40, 60, 80, 100, 200, 500, 1000>>
InBand(i, score) ==
    IF i = 1 THEN score <= BandUpper[1]
    ELSE IF i <= 8 THEN BandUpper[i - 1] < score /\ score <= BandUpper[i]
    ELSE IF i = 9 THEN BandUpper[8] < score /\ score < 42069
    ELSE score >= 42069

C11_StatusBands ==
    (resp.kind = "metrics" /\ ~resp.fenthouse_active) =>
        \A i \in 1..10 :
            (resp.status = BandLabels[i]) <=> InBand(i, resp.chaos_score)

C11_Witness ==
    /\ resp.kind = "metrics"
    /\ ~resp.fenthouse_active
    /\ resp.chaos_score = 20
    /\ resp.status = "CALM"

\* the score just above the first edge is reached and is active
C11_JustAbove ==
    /\ resp.kind = "metrics"
    /\ resp.chaos_score = 21
    /\ resp.status = "ACTIVE"

\* C12 (as amended): starting from empty windows, with the lock inactive,
\* no pizza count in force, no door events and the indexer returning no
\* counts, after n chat_message events were posted, all less than five
\* minutes before the request, GET /api/metrics reports chat_velocity_5min
\* = n and chaos_score = 2*n + the time-of-day bonus; for n = 5 at hour 14
\* the score is 20 and the status is the calm one.
PostedOf(type) == {i \in DOMAIN events : events[i].metric_type = type}
ChatScenario ==
    /\ resp.kind = "metrics"
    /\ ~resp.fenthouse_active
    /\ PizzaInForce = 0
    /\ PostedOf("door_open") = {}
    /\ \A i \in PostedOf("chat_message") :
           now - events[i].timestamp < ChatHorizon
ChatScenarioHolds ==
    LET n == Cardinality(PostedOf("chat_message"))
    IN  /\ resp.chat_velocity_5min = n
        /\ resp.chaos_score = 2 * n + ExpectedTimeBonus(HourOf(now))
        /\ (n = 5 /\ HourOf(now) = 14) =>
               (resp.chaos_score = 20 /\ resp.status = BandLabels[1])

C12_ChatScenarioWithoutIndexer ==
    (ChatScenario /\ FreshCounts = None) => ChatScenarioHolds

C12_Witness ==
    /\ ChatScenario
    /\ FreshCounts = None
    /\ Cardinality(PostedOf("chat_message")) = 5
    /\ HourOf(now) = 14
    /\ resp.chat_velocity_5min = 5
    /\ resp.chaos_score = 20
    /\ resp.status = "CALM"

\* C12 as stated: the same without the condition on the indexer
C12_ChatScenario == ChatScenario => ChatScenarioHolds

\* C13: in every reachable state the chat window holds at most 100
\* timestamps and the door window at most 50, each in non-decreasing time
\* order; every step leaves in a window the most recent entries of the old
\* window followed by the timestamps appended, so that when the capacity
\* is exceeded the oldest timestamps are the ones dropped.
Sorted(window) ==
    \A i \in 1..Len(window) : \A j \in i..Len(window) : window[i] <= window[j]
WindowsBounded ==
    /\ Len(chat_velocity) <= 100 /\ Sorted(chat_velocity)
    /\ Len(door_events) <= 50 /\ Sorted(door_events)
MostRecent(all, cap) ==
    SubSeq(all, Len(all) - Min(Len(all), cap) + 1, Len(all))
KeepsMostRecent(window, window2, t, cap, appended) ==
    \E k \in appended :
        window2 = MostRecent(window \o [i \in 1..k |-> t], cap)
\* the step stored an event of one of the types
Stored(types) ==
    /\ Len(events') = Len(events) + 1
    /\ events'[Len(events')].metric_type \in types

C13_WindowsBoundedOldestDropped ==
    /\ WindowsBounded
    /\ [][/\ WindowsBounded'
          /\ KeepsMostRecent(chat_velocity, chat_velocity', now, 100,
                             IF Stored({"chat_message"}) THEN {1} ELSE {0})
          /\ KeepsMostRecent(door_events, door_events', now, 50,
                             IF Stored({"door_open", "door_close"})
                             THEN 1..50 ELSE {0})]_vars

C13_Witness ==
    /\ Len(chat_velocity) = 100
    /\ Cardinality(PostedOf("chat_message")) = 101
    /\ chat_velocity[1] < chat_velocity[100]
    /\ chat_velocity[100] = now

\* the door window has dropped its oldest entries as well
C13_DoorEvicted ==
    /\ Len(door_events) = 50
    /\ door_events[1] < door_events[50]
    /\ Cardinality({i \in 1..50 : door_events[i] = now}) = 30

\* C14 (as amended): the in-memory 5-minute chat count, as GET /api/metrics
\* reports it on the fallback path, equals the number of chat_message
\* events, among the 100 most recent ones, whose timestamp lies less than
\* five minutes before the query; it is a natural number, and while no
\* event arrives it does not increase as time advances.
IsChat(e) == e.metric_type = "chat_message"
ChatStore == SelectSeq(events, IsChat)
CountWithin(stored) ==
    Cardinality({i \in 1..Len(stored) : now - stored[i].timestamp < ChatHorizon})
ReportsChatCountOf(stored) ==
    (resp.kind = "metrics" /\ FreshCounts = None) =>
        /\ resp.chat_velocity_5min \in Nat
        /\ resp.chat_velocity_5min = CountWithin(stored)

C14_ChatCountOfRetained ==
    /\ ReportsChatCountOf(MostRecent(ChatStore, 100))
    /\ [][/\ ReportsChatCountOf(MostRecent(ChatStore, 100))'
          /\ (chat_velocity' = chat_velocity) =>
                 CountRecent(chat_velocity', now', ChatHorizon)
                     <= CountRecent(chat_velocity, now, ChatHorizon)]_vars

C14_Witness ==
    /\ resp.kind = "metrics"
    /\ FreshCounts = None
    /\ Len(ChatStore) > 100
    /\ 0 < resp.chat_velocity_5min
    /\ resp.chat_velocity_5min < Len(chat_velocity)

\* C14 as stated: the count covers every chat_message event of the last
\* five minutes
C14_ChatCountOfAll == ReportsChatCountOf(ChatStore)

\* C15: every rolling count that GET /api/metrics reports from the
\* in-memory windows leaves out, at read time, the timestamps older than
\* the count's horizon: 5 minutes for chat_velocity_5min, 1 hour for
\* chat_velocity_1hour, 10 minutes for door_events_10min.
C15_CountsExcludeOldTimestamps ==
    (resp.kind = "metrics" /\ FreshCounts = None) =>
        /\ resp.chat_velocity_5min = WindowCount(chat_velocity, 5 * 60)
        /\ resp.chat_velocity_1hour = WindowCount(chat_velocity, 60 * 60)
        /\ resp.door_events_10min = WindowCount(door_events, 10 * 60)

\* C16 (as amended): each ingested chat_message event appends exactly one
\* timestamp to the chat window, whatever its value; each ingested
\* door_open or door_close event with integer value v appends
\* min(v, 100000) timestamps to the door window (none when v <= 0); the
\* window keeps the most recent ones, and no other step changes a window.
TypeOf(body) == IF "type" \in DOMAIN body THEN body.type ELSE "<none>"
Copies(k, t, cap) == [i \in 1..Min(IF k > 0 THEN k ELSE 0, cap) |-> t]
WindowsAfter(body, ok, chatAppended, doorAppended) ==
    do_POST(JsonBody(body), ok) =>
        /\ chat_velocity' =
               MostRecent(chat_velocity \o Copies(chatAppended, now, 100), 100)
        /\ door_events' =
               MostRecent(door_events \o Copies(doorAppended, now, 50), 50)
OnlyEventsChangeWindows ==
    (posts' = posts) => UNCHANGED <<chat_velocity, door_events>>

C16_ChatValueIgnored ==
    /\ Len(events) = 1
    /\ events[1].metric_type = "chat_message"
    /\ events[1].value = 7
    /\ Len(chat_velocity) = 1

C17_PizzaCounterNonNegative == pizza_count >= 0

\* C18: a POST /api/event whose type is none of chat_message, door_open,
\* door_close, pizza, reset_pizza leaves the chat window, the door window
\* and the pizza counter as they were and, the INSERT succeeding, appends
\* the event to the event store and answers {success: true, chaos_score},
\* the score being the engine's.
KnownTypes ==
    {"chat_message", "door_open", "door_close", "pizza", "reset_pizza"}
UnknownTypeBodies ==
    {body \in EventBodies :
        "type" \in DOMAIN body /\ body.type \notin KnownTypes}

C18_UnknownTypeStoredOnly ==
    [][\A body \in UnknownTypeBodies, ok \in BOOLEAN :
          do_POST(JsonBody(body), ok) =>
              /\ UNCHANGED <<chat_velocity, door_events, pizza_count>>
              /\ ok =>
                    /\ Len(events') = Len(events) + 1
                    /\ SubSeq(events', 1, Len(events)) = events
                    /\ events'[Len(events')].metric_type = body.type
                    /\ events'[Len(events')].value = body.value
                    /\ resp'.kind = "event"
                    /\ resp'.success = TRUE
                    /\ resp'.chaos_score = ExpectedScore']_vars

C18_Witness ==
    /\ resp.kind = "event"
    /\ resp.success = TRUE
    /\ Len(events) = 1
    /\ events[1].metric_type \notin KnownTypes
    /\ chat_velocity = << >>
    /\ door_events = << >>
    /\ pizza_count = 0

\* C19: a POST /api/event whose body is not parseable JSON is answered
\* with the error 400 and changes nothing: the windows, the pizza counter
\* and the event store are as before the request.
UnparseableBodies == {BadUtf8, BadJson}

C19_UnparseableBodyGets400 ==
    [][\A raw \in UnparseableBodies :
          do_POST(raw, TRUE) =>
              /\ resp'.kind = "error"
              /\ resp'.code = 400
              /\ UNCHANGED <<chat_velocity, door_events, pizza_count,
                             events>>]_vars

\* C20: a POST /api/event whose JSON body has no type field is rejected
\* with a client error before the engine is called, and changes no window,
\* no counter and no part of the event store.
TypelessBodies == {b \in EventBodies : "type" \notin DOMAIN b}

C20_MissingTypeRejected ==
    [][\A body \in TypelessBodies, ok \in BOOLEAN :
          do_POST(JsonBody(body), ok) =>
              /\ resp'.kind = "error"
              /\ UNCHANGED <<chat_velocity, door_events, pizza_count,
                             events, metrics_cache, pizza_cache>>]_vars

\* C21: when the INSERT of a POST /api/event fails, the failure reaches the
\* caller as an error (the exception leaves the handler and no success
\* body is written) and the event store is as before; and whenever a
\* request is answered {success: true}, its event is the record just
\* appended to the event store.
TypedBodies == {b \in EventBodies : "type" \in DOMAIN b}

RecordOf(body) ==
    [timestamp |-> now, metric_type |-> body.type,
     value |-> Get(body, "value", 1), details |-> Get(body, "details", "")]
IsExtension(log, log2) ==
    /\ Len(log2) >= Len(log)
    /\ SubSeq(log2, 1, Len(log)) = log

C22_EventStoreAppendOnly ==
    [][/\ IsExtension(events, events')
       /\ \A body \in WindowBodies :
              do_POST(JsonBody(body), TRUE) =>
                  /\ resp'.kind = "event" /\ resp'.success = TRUE
                  /\ events' = Append(events, RecordOf(body))]_vars

\* two events answered with success on top of a log of 148 records
C22_Witness ==
    /\ resp.kind = "event"
    /\ resp.success = TRUE
    /\ posts = DoorBurst
    /\ Len(events) = Len(BurstDoor) + Len(BurstChat) + DoorBurst
    /\ events[1].metric_type = "door_open"

\* C23: GET /api/metrics leaves the chat window, the door window, the
\* pizza counter and the event store unchanged (and the lock file and the
\* clock with them); of the state it may change only the caches of the
\* external sources, besides writing its response.
C23_MetricsReadOnly ==
    [][ServeMetrics =>
          /\ UNCHANGED <<chat_velocity, door_events, pizza_count, events>>
          /\ UNCHANGED <<lockFile, mongo, now, posts>>]_vars

\* a GET served once the stored chat timestamps had left the horizon: it
\* refreshed the indexer cache and left the window and the log alone
C23_Witness ==
    /\ resp.kind = "metrics"
    /\ Len(chat_velocity) >= 1
    /\ now - chat_velocity[Len(chat_velocity)] >= ChatHorizon
    /\ Len(events) >= 1
    /\ metrics_cache.data # None
    /\ metrics_cache.timestamp = now

\* the score and the GET answer computed from the given caches and the
\* rest of the current state
ScoreFrom(mcache, pcache) ==
    calculate_chaos_score(lockFile, mcache, pcache, mongo, chat_velocity,
                          door_events, now)
MetricsFrom(mcache, pcache) ==
    LET cs == ScoreFrom(mcache, pcache)
    IN  serve_metrics_rest(cs.ret, lockFile, cs.mcache, cs.pcache, mongo,
                           chat_velocity, door_events, now).resp

\* a second GET at the same instant repeats the chaos_score just reported
GetRepeatsScore ==
    resp.kind = "metrics" =>
        MetricsFrom(metrics_cache, pizza_cache).chaos_score = resp.chaos_score

EngineAnswers ==
    /\ ServeMetrics => resp'.kind = "metrics"
    /\ \A body \in SourceBodies :
           do_POST(JsonBody(body), TRUE) => resp'.kind = "event"
FallbackScore ==
    IF LockRecordActive(lockFile, now) THEN SENTINEL ELSE ExpectedScore

C25_ScoreNeverFails ==
    /\ [][EngineAnswers]_vars
    /\ [](EngineCall => EngineScore \in Nat /\ EngineScore = FallbackScore)

\* both queries fail: the indexer cache has expired, so the windows are
\* counted; the pizza cache is stale and still supplies the count
C25_Witness ==
    /\ EngineCall
    /\ mongo = [metrics |-> None, pizza |-> None]
    /\ FreshCounts = None
    /\ Len(chat_velocity) = 1
    /\ pizza_cache.count = Some(15000)
    /\ now - pizza_cache.timestamp >= PizzaTTL
    /\ EngineScore = FallbackScore
    /\ EngineScore > 2 + 20

\* the queries fail and the lock file is unusable: the score is still
\* computed
C25_BrokenLockAndSourcesDown ==
    /\ EngineCall
    /\ mongo = [metrics |-> None, pizza |-> None]
    /\ lockFile \in SourceLocks \ {NoLockFile}
    /\ ~IsLockRecord(lockFile)
    /\ EngineScore = FallbackScore

\* C26: the results of the external sources are TTL-cached.  A GET served
\* less than 5 s after the indexer counts were fetched issues no indexer
\* query: the cache entry stays as it is and the counts reported are the
\* cached ones, whatever the indexer would answer now; likewise for the
\* pizza count and 30 s.  Once the TTL has elapsed (or nothing was
\* fetched yet) the source is queried, and a successful answer is
\* reported and cached with the time of the call.
IndexerCacheFresh ==
    metrics_cache.data # None /\ now - metrics_cache.timestamp < MetricsTTL
PizzaCacheFresh ==
    pizza_cache.count # None /\ now - pizza_cache.timestamp < PizzaTTL
ReportsCounts(r, data) ==
    IF Truthy(Val(data))
    THEN /\ r.chat_velocity_5min = Get(Val(data), "fiveMin", 0)
         /\ r.chat_velocity_1hour = Get(Val(data), "hour", 0)
         /\ r.door_events_10min = Get(Val(data), "tenMin", 0) \div 2
    ELSE /\ r.chat_velocity_5min = WindowCount(chat_velocity, ChatHorizon)
         /\ r.door_events_10min = WindowCount(door_events, DoorHorizon)

C26_TTLCaches ==
    [][ServeMetrics =>
          /\ IndexerCacheFresh =>
                 /\ metrics_cache' = metrics_cache
                 /\ ReportsCounts(resp', metrics_cache.data)
          /\ (~IndexerCacheFresh /\ mongo.metrics # None) =>
                 /\ metrics_cache' =
                        [data |-> mongo.metrics, timestamp |-> now]
                 /\ ReportsCounts(resp', mongo.metrics)
          /\ PizzaCacheFresh =>
                 /\ pizza_cache' = pizza_cache
                 /\ resp'.pizza_count = Val(pizza_cache.count)
          /\ (~PizzaCacheFresh /\ mongo.pizza # None) =>
                 /\ pizza_cache' = [count |-> mongo.pizza, timestamp |-> now]
                 /\ resp'.pizza_count = Val(mongo.pizza)]_vars

\* a GET 3 s after both fetches, the sources answering differently by
\* then: both values come from the caches
C26_Witness ==
    /\ resp.kind = "metrics"
    /\ now - metrics_cache.timestamp = 3
    /\ now - pizza_cache.timestamp = 3
    /\ metrics_cache.data = Some(Counts)
    /\ mongo.metrics = Some([warning |-> 1])
    /\ pizza_cache.count = Some(5)
    /\ mongo.pizza = Some(15000)
    /\ resp.pizza_count = 5
    /\ resp.chat_velocity_5min = Counts.fiveMin

\* a GET exactly 30 s after the pizza fetch queries again
C26_RefetchAtTTL ==
    /\ resp.kind = "metrics"
    /\ now = StartTime + PizzaTTL
    /\ pizza_cache = [count |-> Some(15000), timestamp |-> now]
    /\ metrics_cache.timestamp = now

\* the live score of either server variant, computed from the current
\* state
LiveScores ==
    <<app_calculate_chaos_score(chat_velocity, door_events, pizza_count,
                                now),
      MetricsFrom(metrics_cache, pizza_cache).chaos_score>>

\* C27: a run of the background aggregator only reads the live state: it
\* leaves the chat window, the door window, the pizza counter and the
\* event log (and everything else a score computation reads) unchanged,
\* so the live score is the same after the run as before it, whether the
\* run succeeded or failed; and the thread survives a failed run, so
\* later runs still take place.
C27_AggregatorReadOnly ==
    /\ [][\A ok \in BOOLEAN :
             background_aggregator(ok) =>
                 /\ UNCHANGED <<chat_velocity, door_events, pizza_count,
                                events>>
                 /\ UNCHANGED <<metrics_cache, pizza_cache, lockFile, mongo,
                                now, resp>>
                 /\ LiveScores' = LiveScores]_vars
    /\ [](aggregator_thread.alive)

\* the first run failed, the second stored the rollup of the hour: one
\* chat message, one door event
C27_Witness ==
    /\ aggregator_thread.runs = 2
    /\ aggregator_thread.failed = {1}
    /\ aggregator_thread.alive
    /\ DOMAIN hourly_stats = {HourStart(now)}
    /\ Len(chat_velocity) = 1
    /\ hourly_stats[HourStart(now)].message_count = 1
    /\ hourly_stats[HourStart(now)].chaos_score > 0

\* the in-memory effect of one event on a live state, at the current
\* instant
BodyType(body) == IF "type" \in DOMAIN body THEN Some(body.type) ELSE None
LiveState ==
    [chat |-> chat_velocity, door |-> door_events, pizza |-> pizza_count]
ApplyEvent(body, st) ==
    record_in_memory(BodyType(body), Get(body, "value", 1),
                     st.chat, st.door, st.pizza, now)
Commute(e1, e2) ==
    ApplyEvent(e2, ApplyEvent(e1, LiveState))
        = ApplyEvent(e1, ApplyEvent(e2, LiveState))
PizzaAndReset(e1, e2) ==
    {BodyType(e1), BodyType(e2)} = {Some("pizza"), Some("reset_pizza")}

\* one body of each kind of event; Commute is symmetric, so each pair is
\* taken once
CommuteBodies ==
    <<Body("chat_message", 1), Body("door_open", 3), Body("door_close", 60),
      Body("pizza", 3), Body("pizza", -5), Body("reset_pizza", 1),
      Body("glizz", 1), BodyNoType(1)>>
CommutePairs ==
    {p \in (DOMAIN CommuteBodies) \X (DOMAIN CommuteBodies) : p[1] < p[2]}

\* C28 (as stated): any two events applied at the same instant to the
\* same state give the same chat window, door window and pizza counter in
\* either order.
C28_AllEventsCommute ==
    \A p \in CommutePairs :
        Commute(CommuteBodies[p[1]], CommuteBodies[p[2]])

\* C28 (amended): two events applied at the same instant to the same state
\* give the same chat window, door window and pizza counter in either
\* order, unless one of them is a pizza event and the other a reset_pizza
\* event.
C28_EventsCommuteExceptReset ==
    \A p \in CommutePairs :
        ~PizzaAndReset(CommuteBodies[p[1]], CommuteBodies[p[2]]) =>
            Commute(CommuteBodies[p[1]], CommuteBodies[p[2]])

\* a door window filled to its capacity by one event: door events of 3
\* and of 60 timestamps still commute on it, pizza and reset_pizza do not
C28_Witness ==
    /\ resp.kind = "event"
    /\ Len(door_events) = DoorMaxLen
    /\ Commute(Body("door_open", 3), Body("door_close", 60))
    /\ Commute(Body("pizza", 3), Body("pizza", -5))
    /\ ~Commute(Body("pizza", 3), Body("reset_pizza", 1))

\* the events of one type taken in so far: stored, or held by a thread
Started(type) ==
    Cardinality({i \in DOMAIN events : events[i].metric_type = type})
    + Cardinality({h \in DOMAIN handlers : handlers[h].type = type})

ScoreForcedByLock == resp.chaos_score = SENTINEL
StatusIsLockMessage == resp.status \in LockMessages \cup {DefaultLockMsg}

\* C30: every GET /api/metrics response is consistent about the lock, even
\* when the lock expires or appears while the request is served:
\* fenthouse_active is true exactly when the reported score is the one the
\* lock forces, and the status is the lock's message exactly when
\* fenthouse_active is true.
C30_LockConsistentResponse ==
    resp.kind = "metrics" =>
        /\ resp.fenthouse_active <=> ScoreForcedByLock
        /\ resp.fenthouse_active <=> StatusIsLockMessage

\* the half that does not depend on the first read of the lock
C30_StatusFollowsActiveFlag ==
    resp.kind = "metrics" => (resp.fenthouse_active <=> StatusIsLockMessage)

\* the score that the counts reported in a GET response give
ScoreOfReported(r) ==
    LET base == 2 * r.chat_velocity_5min + 5 * r.door_events_10min
                + ExpectedTimeBonus(HourOf(now))
                + ExpectedPizzaBonus(r.pizza_count)
    IN  IF r.pizza_count > PizzapocalypseAt THEN 2 * base ELSE base

\* C31: in every GET /api/metrics response with the lock inactive, the
\* reported chat_velocity_5min, door_events_10min and pizza_count are the
\* values the reported score was computed from: chaos_score is
\* 2*chat + 5*doors + time bonus + pizza bonus, doubled exactly when the
\* reported pizza count is above 10000, even when a cache expires or a
\* source changes its answer while the request is served.
C31_ReportedCountsGiveScore ==
    (resp.kind = "metrics" /\ ~resp.fenthouse_active) =>
        resp.chaos_score = ScoreOfReported(resp)

\* C32: the chaos_score in the response of POST /api/event equals the
\* chaos_score GET /api/metrics reports for the state the POST left, at the
\* same time, for every pizza count and lock state.
C32_PostScoreIsGetScore ==
    resp.kind = "event" =>
        resp.chaos_score = MetricsFrom(metrics_cache, pizza_cache).chaos_score

\* C33: a POST /api/event whose INSERT into the event store fails leaves
\* the in-memory state as it was before the request: no timestamp is
\* appended to a window and the pizza counter is neither incremented nor
\* reset.
C33_FailedInsertLeavesMemory ==
    [][\A body \in TypedBodies :
           do_POST(JsonBody(body), FALSE) =>
               UNCHANGED <<chat_velocity, door_events, pizza_count>>]_vars

\* C34: when the pizza source fails, a GET /api/metrics reports the value
\* get_cached_pizza_count last fetched successfully, however old, or 0 if
\* no fetch ever succeeded, never None or a negative number; the cache
\* value and its timestamp change only by a successful fetch, which stores
\* the source's answer and the time of the call.
C34_PizzaFallsBackToLastFetch ==
    /\ [][(ServeMetrics /\ mongo.pizza = None) =>
              /\ pizza_cache' = pizza_cache
              /\ resp'.pizza_count = IF pizza_cache.count = None THEN 0
                                     ELSE Val(pizza_cache.count)]_vars
    /\ [][pizza_cache' # pizza_cache =>
              /\ mongo.pizza # None
              /\ pizza_cache' = [count |-> mongo.pizza, timestamp |-> now]]_vars
    /\ [](resp.kind = "metrics" => resp.pizza_count \in Nat)

\* the source is down, the value fetched more than 30 seconds ago is
\* reported
C34_Witness ==
    /\ resp.kind = "metrics"
    /\ mongo.pizza = None
    /\ pizza_cache.count = Some(5)
    /\ now - pizza_cache.timestamp >= PizzaTTL
    /\ resp.pizza_count = 5

\* C35: a GET /api/metrics never reports an indexer message count or room
\* count that was fetched 60 seconds or more before the call, whatever
\* sequence of successful and failed fetches of the two values came before
\* (get_indexer_count and get_indexer_rooms share one cache timestamp).
C35_IndexerCountsFresh ==
    resp.kind = "metrics" =>
        /\ resp.matrix_indexer_messages # None =>
               now - indexer_fetched.count < IndexerTTL
        /\ resp.matrix_indexer_rooms # None =>
               now - indexer_fetched.rooms < IndexerTTL

\* what get_fenthouse_status returns in the current state
LockStatusNow == get_fenthouse_status(lockFile, now)

CountdownWellFormed(c, expires_at) ==
    /\ c.total_seconds = expires_at - now
    /\ c.total_seconds > 0
    /\ c.total_seconds = c.hours * 3600 + c.minutes * 60 + c.seconds
    /\ c.hours >= 0
    /\ 0 <= c.minutes /\ c.minutes < 60
    /\ 0 <= c.seconds /\ c.seconds < 60

\* C36: whenever get_fenthouse_status reports active, its countdown
\* satisfies total_seconds = expires_at - now > 0, total_seconds =
\* hours*3600 + minutes*60 + seconds, 0 <= minutes < 60 and 0 <= seconds < 60
\* (and that countdown is the one a GET /api/metrics shows); whenever it
\* reports inactive, status_message, countdown and expires_at are all None.
C36_CountdownArithmetic ==
    /\ IF LockStatusNow.active
       THEN /\ LockStatusNow.countdown # None
            /\ LockStatusNow.expires_at # None
            /\ LockStatusNow.status_message # None
            /\ CountdownWellFormed(Val(LockStatusNow.countdown),
                                   Val(LockStatusNow.expires_at))
       ELSE /\ LockStatusNow.status_message = None
            /\ LockStatusNow.countdown = None
            /\ LockStatusNow.expires_at = None
    /\ resp.kind = "metrics" =>
           /\ resp.fenthouse_active = LockStatusNow.active
           /\ resp.fenthouse_countdown = LockStatusNow.countdown

\* a response shows a countdown of 1 h 2 min 5 s
C36_Witness ==
    /\ resp.kind = "metrics"
    /\ resp.fenthouse_active
    /\ Val(resp.fenthouse_countdown).hours = 1
    /\ Val(resp.fenthouse_countdown).minutes >= 1
    /\ Val(resp.fenthouse_countdown).seconds >= 1

\* the score of src/app.py and its factors in the current state
AppFactors ==
    [chat |-> app_chat_factor(chat_velocity, now),
     door |-> app_door_factor(door_events, now),
     time |-> app_time_factor(now),
     pizza |-> app_pizza_factor(pizza_count)]

AppScore ==
    app_calculate_chaos_score(chat_velocity, door_events, pizza_count, now)

\* C37: in the capped server (src/app.py) the score is within 0..100 in
\* every reachable state, in every response to an event and in every
\* hourly row, and each factor stays within its documented range: chat
\* 0..40, door 0..30, time of day 0..20, pizza 0..10, for every window
\* content and every pizza counter value.
C37_CappedScoreInRange ==
    /\ AppFactors.chat \in 0 .. 40
    /\ AppFactors.door \in 0 .. 30
    /\ AppFactors.time \in 0 .. 20
    /\ AppFactors.pizza \in 0 .. 10
    /\ AppScore \in 0 .. 100
    /\ resp.kind = "event" => resp.chaos_score \in 0 .. 100
    /\ \A hour \in DOMAIN hourly_stats :
           hourly_stats[hour].chaos_score \in 0 .. 100

\* every cap binds at once: more than 20 recent messages, more than 6
\* recent door events, a pizza counter above 5, at night; the row the
\* aggregator stored holds the score 100
C37_Witness ==
    /\ CountRecent(chat_velocity, now, ChatHorizon) > 20
    /\ CountRecent(door_events, now, DoorHorizon) > 6
    /\ pizza_count > 5
    /\ AppFactors.time = 20
    /\ AppScore = 100
    /\ HourStart(now) \in DOMAIN hourly_stats
    /\ hourly_stats[HourStart(now)].chaos_score = 100

\* the row a run of the aggregator computes in the current state
RollupNow ==
    [message_count |-> CountRecent(chat_velocity, now, 3600),
     door_opens |-> CountRecent(door_events, now, 3600),
     chaos_score |-> AppScore]

\* C38: the hourly rollup table holds at most one row per hour bucket:
\* every key is an hour truncated to minute 0; a run of the aggregator
\* that reaches its commit stores, under the current hour, the message and
\* door counts of the last hour and the current score, overwriting the row
\* an earlier run of the same hour stored, and leaves the rows of other
\* hours as they were; a run that fails changes nothing.
C38_OneRowPerHour ==
    /\ [][/\ background_aggregator(TRUE) =>
                 /\ DOMAIN hourly_stats' =
                        DOMAIN hourly_stats \cup {HourStart(now)}
                 /\ hourly_stats'[HourStart(now)] = RollupNow
                 /\ \A h \in DOMAIN hourly_stats \ {HourStart(now)} :
                        hourly_stats'[h] = hourly_stats[h]
          /\ background_aggregator(FALSE) => hourly_stats' = hourly_stats
          /\ hourly_stats' # hourly_stats =>
                 background_aggregator(TRUE)]_vars
    /\ [](\A h \in DOMAIN hourly_stats :
              /\ h % 3600 = 0
              /\ h <= now)
    /\ [](HourStart(now) <= now /\ now < HourStart(now) + 3600)

\* two hours have a row each: the row of the earlier hour, stored before
\* the chat message arrived, is as it was
C38_Witness ==
    /\ aggregator_thread.runs = 2
    /\ Cardinality(DOMAIN hourly_stats) = 2
    /\ HourStart(now) \in DOMAIN hourly_stats
    /\ HourStart(StartTime) \in DOMAIN hourly_stats
    /\ hourly_stats[HourStart(StartTime)].message_count = 0
    /\ hourly_stats[HourStart(now)].message_count = 1

\* C39: the Fenthouse poster thread posts a message to the room only in an
\* iteration in which the lock is active at the time of its check and an
\* access token is configured, one message at most per iteration, and
\* iterations are at least 300 seconds apart; it never posts while the lock
\* is inactive; an exception in an iteration is caught, and the thread goes
\* on to sleep and to its later iterations.
C39_PosterPostsOnlyUnderLock ==
    /\ [][/\ room' # room =>
                 /\ \E o \in PosterOutcomes :
                        fenthouse_poster_thread(o.sendOk, o.raises)
                 /\ room' = Append(room, now)
                 /\ LockStatusNow.active
                 /\ TokenSet(MATRIX_ACCESS_TOKEN)
          /\ \A o \in PosterOutcomes :
                 fenthouse_poster_thread(o.sendOk, o.raises) =>
                     /\ poster_thread'.alive
                     /\ poster_thread'.wake = now + PosterInterval
                     /\ poster_thread'.iterations
                            = poster_thread.iterations + 1
                     /\ ~LockStatusNow.active => room' = room]_vars
    /\ [](\A i \in 1 .. Len(room) - 1 :
              room[i + 1] - room[i] >= PosterInterval)
    /\ [](Len(room) <= poster_thread.iterations)
    /\ [](poster_thread.alive = TokenSet(MATRIX_ACCESS_TOKEN))

\* an iteration raised and was logged, and a later iteration posted
C39_Witness ==
    /\ poster_thread.last_error # None
    /\ poster_thread.iterations = 2
    /\ Len(room) = 1
    /\ room[1] > Val(poster_thread.last_error)
    /\ LockStatusNow.active

\* the chat_message events among those a bridge sent
ChatMessagesSent ==
    {i \in DOMAIN outbox.sent : outbox.sent[i].type = "chat_message"}

\* the listener passes over empty messages and the bot's own
Skipped ==
    \/ outbox.bridge = "matrix_listener_own"
    \/ outbox.bridge = "matrix_listener" /\ outbox.content = << >>

\* C40: every chat message a bridge processes causes exactly one
\* chat_message event to be sent to /api/event, whatever keywords the
\* message contains: pizza, door and chaos keywords add pizza or door_open
\* events or change the value, and never add a second chat_message event.
C40_OneChatMessagePerMessage ==
    (outbox.bridge # "none" /\ ~Skipped) =>
        Cardinality(ChatMessagesSent) = 1

====
